---- MODULE Spec2Model ----
(***************************************************************************)
(* A model of the option-thetagang decision engine: the risk manager       *)
(* (src/src/risk_manager.py), the Wheel and Iron Condor strategies         *)
(* (src/src/core_strategy.py, src/src/iron_condor_strategy.py), the        *)
(* strategy selector (src/src/strategy_selector.py) and the trading cycle  *)
(* (src/src/main.py).                                                      *)
(*                                                                         *)
(* Conventions.                                                            *)
(*  - Optional[T]: None is <<>>, a present value v is <<v>>.               *)
(*  - Fractions of the configuration (0.5, 0.25, 0.10, ...) are integers   *)
(*    in percent; a comparison  a / b > f  with b > 0 is written           *)
(*    a * 100 > f_pct * b  (exact arithmetic, so float rounding is not     *)
(*    modelled).                                                           *)
(*  - Deltas are in hundredths (-0.30 is -30).                             *)
(*  - An expiration is the number of calendar days from today to it, the   *)
(*    quantity every use in the source reduces it to.                      *)
(*  - A mid price (bid + ask) / 2 is kept doubled, as bid + ask.           *)
(***************************************************************************)
EXTENDS Integers, Sequences, FiniteSets, TLC

VARIABLES
    phase,              \* which entry point ran last
    symbol_configs,     \* RiskManager.symbol_configs / StrategySelector.symbol_configs
    positions,          \* List[Position]
    account_info,       \* AccountInfo
    risk_config,        \* RiskManager.config
    recommendation,     \* the TradeRecommendation handed to validate_trade
    current_vix,        \* Optional[float]
    risk_result,        \* the RiskCheckResult returned by validate_trade
    config,             \* Strategy.config, the strategy's SymbolConfig
    stock_price,        \* the stock price handed to analyze
    options_chain,      \* List[OptionChainData]
    recommendations,    \* the list analyze returned
    ic_positions,       \* the spreads _identify_iron_condor_positions returned
    strategy_config,    \* StrategySelector.config, the StrategyConfig
    current_symbol,     \* the symbol handed to select_best_strategy
    volatility,         \* Optional[float], in percent
    trend,              \* Optional[str]
    selected,           \* the strategy select_best_strategy returned
    market,             \* what the data fetcher returns for each symbol
    all_recommendations,\* run_once: the recommendations of every symbol
    next_symbol,        \* run_once: position of the loop over config.symbols
    next_rec,           \* run_once: position of the loop over all_recommendations
    validated,          \* the calls of validate_trade run_once made, in order
    executed,           \* the calls of execute_recommendation run_once made, in order
    search,             \* the arguments of a direct call of _find_option_by_delta
    best_option,        \* the quote that call returned
    dry_run,            \* OrderExecutor.dry_run
    broker_accepts,     \* whether ib.placeOrder returns a trade or raises
    order_history,      \* OrderExecutor.order_history, List[OrderRecord]
    execution           \* how the last call of execute_recommendation ended

\* The portfolio and account snapshot every entry point reads.
snapshotVars == <<symbol_configs, positions, account_info>>

\* The arguments and the result of validate_trade.
riskVars == <<risk_config, recommendation, current_vix, risk_result>>

\* The strategy's configuration and the market data handed to analyze.
marketVars == <<config, stock_price, options_chain>>

\* The strategies' results.
strategyOut == <<recommendations, ic_positions>>

\* The arguments and the result of select_best_strategy.
selectorVars == <<strategy_config, current_symbol, volatility, trend, selected>>

\* The trading cycle's inputs, loop positions and call logs.
cycleVars == <<market, all_recommendations, next_symbol, next_rec, validated, executed>>

\* The arguments and the result of _find_option_by_delta called on its own.
searchVars == <<search, best_option>>

\* The order executor's fields and the outcome of its last call.
executorVars == <<dry_run, broker_accepts, order_history, execution>>

vars == <<phase, executorVars, searchVars, snapshotVars, riskVars, marketVars, strategyOut,
          selectorVars, cycleVars>>

-----------------------------------------------------------------------------
(* Optional values *)

None == <<>>

Some(v) == <<v>>

Val(o) == o[1]

Abs(x) == IF x < 0 THEN -x ELSE x

Max2(a, b) == IF a >= b THEN a ELSE b

\* Sequences over S of length at most n.
SeqUpTo(S, n) == UNION {[1..k -> S] : k \in 0..n}

\* sum(s) of a list of numbers
Sum(s) ==
    LET acc[i \in 0..Len(s)] == IF i = 0 THEN 0 ELSE acc[i - 1] + s[i]
    IN  acc[Len(s)]

SeqToSet(s) == {s[i] : i \in DOMAIN s}

-----------------------------------------------------------------------------
(* Enumerations *)

OpeningActions == {"SELL_PUT", "SELL_CALL"}

WheelActions == {"SELL_PUT", "SELL_CALL", "ROLL_PUT", "ROLL_CALL", "CLOSE_PUT", "CLOSE_CALL"}

IronCondorActions ==
    {"SELL_IRON_CONDOR", "CLOSE_IRON_CONDOR", "ROLL_IRON_CONDOR", "ADJUST_IRON_CONDOR"}

Action == WheelActions \cup IronCondorActions \cup {"DO_NOTHING"}

\* A TradeRecommendation with every optional field at its default.
TradeRecommendation(action, symbol, quantity, strategy_type) ==
    [action |-> action, symbol |-> symbol, quantity |-> quantity,
     strategy_type |-> strategy_type,
     strike |-> None, expiration |-> None, right |-> None,
     premium_x2 |-> None, delta |-> None,
     long_call_strike |-> None, short_call_strike |-> None,
     long_put_strike |-> None, short_put_strike |-> None,
     existing_position |-> None, new_strike |-> None, new_expiration |-> None,
     expected_credit |-> None, max_loss |-> None, max_profit |-> None]

\* A Position of the portfolio, as get_positions builds it: with its contract.
Position(symbol, position_type, quantity, avg_cost, market_value, strike, expiration, right) ==
    [symbol |-> symbol, position_type |-> position_type, quantity |-> quantity,
     avg_cost |-> avg_cost, market_value |-> market_value,
     strike |-> strike, expiration |-> expiration, right |-> right,
     contract |-> Some("contract")]

OptionChainData(strike, expiration, right, bid, ask, delta) ==
    [strike |-> strike, expiration |-> expiration, right |-> right,
     bid |-> bid, ask |-> ask, delta |-> delta]

\* A SymbolConfig; the fields that are not parameters keep the dataclass defaults.
SymbolConfig(symbol, enabled, max_positions, min_premium, min_premium_percent, size_pct) ==
    [symbol |-> symbol, enabled |-> enabled, max_positions |-> max_positions,
     target_delta |-> 30, min_premium |-> min_premium,
     min_premium_percent |-> min_premium_percent,
     dte_min |-> 30, dte_max |-> 45, roll_when_dte |-> 21, roll_when_pnl_percent |-> 50,
     max_position_size_percent |-> size_pct]

RiskCheckResult(approved, violations, reasons, adjusted_quantity) ==
    [approved |-> approved, violations |-> violations, reasons |-> reasons,
     adjusted_quantity |-> adjusted_quantity]

-----------------------------------------------------------------------------
(* RiskManager *)

\* Python truthiness of an Optional[float]: None and 0 are false.
Truthy(o) == o # None /\ Val(o) # 0

estimate_margin_requirement_AllSales(rec) ==
    IF rec.action \in OpeningActions /\ Truthy(rec.strike)
    THEN Val(rec.strike) * 100 * rec.quantity
    ELSE 0

estimate_margin_requirement(rec) ==
    IF rec.action = "SELL_PUT"
    THEN IF Truthy(rec.strike) THEN Val(rec.strike) * 100 * rec.quantity ELSE 0
    ELSE 0

estimate_position_value(rec) ==
    IF Truthy(rec.strike) THEN Val(rec.strike) * 100 * rec.quantity ELSE 0

estimate_buying_power_requirement(rec) == estimate_margin_requirement(rec)

check_vix_limits(cfg, vix, rec) ==
    LET block == /\ cfg.max_vix_for_new_positions # None
                 /\ vix > Val(cfg.max_vix_for_new_positions)
                 /\ rec.action \in OpeningActions
        reduced_qty == (rec.quantity * cfg.vix_size_reduction_factor) \div 100
        reduce == /\ cfg.reduce_size_when_vix_above # None
                  /\ vix > Val(cfg.reduce_size_when_vix_above)
                  /\ rec.action \in OpeningActions
                  /\ reduced_qty < rec.quantity
        violations == IF block THEN <<"VIX_TOO_HIGH">> ELSE <<>>
        reasons == (IF block THEN <<"vix_exceeds_maximum">> ELSE <<>>)
                   \o (IF reduce THEN <<"vix_reducing_size">> ELSE <<>>)
        adjusted_quantity == IF reduce THEN Some(Max2(1, reduced_qty)) ELSE None
    IN  RiskCheckResult(violations = <<>>, violations, reasons, adjusted_quantity)

\* A margin check that lets every recommendation pass that opens nothing.
check_margin_usage_OpeningOnly(cfg, rec, pos, acct) ==
    LET current_margin == acct.margin_used
        total_equity == acct.net_liquidation
        new_margin == current_margin + estimate_margin_requirement(rec)
    IN  IF rec.action \notin OpeningActions
        THEN RiskCheckResult(TRUE, <<>>, <<>>, None)
        ELSE IF total_equity <= 0
        THEN RiskCheckResult(FALSE, <<"MARGIN_EXCEEDED">>, <<"equity_zero_or_negative">>, None)
        ELSE IF new_margin * 100 > cfg.max_portfolio_margin_usage * total_equity
             THEN RiskCheckResult(FALSE, <<"MARGIN_EXCEEDED">>, <<"margin_usage_limit">>, None)
             ELSE RiskCheckResult(TRUE, <<>>, <<>>, None)

check_margin_usage(cfg, rec, pos, acct) ==
    LET current_margin == acct.margin_used
        total_equity == acct.net_liquidation
        new_margin == current_margin + estimate_margin_requirement(rec)
    IN  IF total_equity <= 0
        THEN RiskCheckResult(FALSE, <<"MARGIN_EXCEEDED">>, <<"equity_zero_or_negative">>, None)
        ELSE IF new_margin * 100 > cfg.max_portfolio_margin_usage * total_equity
             THEN RiskCheckResult(FALSE, <<"MARGIN_EXCEEDED">>, <<"margin_usage_limit">>, None)
             ELSE RiskCheckResult(TRUE, <<>>, <<>>, None)

\* A position-count check that treats every action as opening a position.
check_position_limits_AllActions(cfg, scfgs, rec, pos) ==
    LET NonZero(p) == p.quantity # 0
        OfSymbolNonZero(p) == p.symbol = rec.symbol /\ p.quantity # 0
        current_positions == Len(SelectSeq(pos, NonZero))
        current_count == Len(SelectSeq(pos, OfSymbolNonZero))
        is_new_position == TRUE
        total == /\ cfg.max_total_positions # None
                 /\ is_new_position
                 /\ current_positions >= Val(cfg.max_total_positions)
        per_symbol == /\ rec.symbol \in DOMAIN scfgs
                      /\ is_new_position
                      /\ current_count >= scfgs[rec.symbol].max_positions
        violations == (IF total THEN <<"POSITION_LIMIT_EXCEEDED">> ELSE <<>>)
                      \o (IF per_symbol THEN <<"POSITION_LIMIT_EXCEEDED">> ELSE <<>>)
        reasons == (IF total THEN <<"max_total_positions">> ELSE <<>>)
                   \o (IF per_symbol THEN <<"max_symbol_positions">> ELSE <<>>)
    IN  RiskCheckResult(violations = <<>>, violations, reasons, None)

\* A position-count check that counts the option positions only.
check_position_limits_OptionsOnly(cfg, scfgs, rec, pos) ==
    LET NonZero(p) == p.quantity # 0 /\ p.position_type = "option"
        OfSymbolNonZero(p) == /\ p.symbol = rec.symbol /\ p.quantity # 0
                              /\ p.position_type = "option"
        current_positions == Len(SelectSeq(pos, NonZero))
        current_count == Len(SelectSeq(pos, OfSymbolNonZero))
        is_new_position == rec.action \in OpeningActions
        total == /\ cfg.max_total_positions # None
                 /\ is_new_position
                 /\ current_positions >= Val(cfg.max_total_positions)
        per_symbol == /\ rec.symbol \in DOMAIN scfgs
                      /\ is_new_position
                      /\ current_count >= scfgs[rec.symbol].max_positions
        violations == (IF total THEN <<"POSITION_LIMIT_EXCEEDED">> ELSE <<>>)
                      \o (IF per_symbol THEN <<"POSITION_LIMIT_EXCEEDED">> ELSE <<>>)
        reasons == (IF total THEN <<"max_total_positions">> ELSE <<>>)
                   \o (IF per_symbol THEN <<"max_symbol_positions">> ELSE <<>>)
    IN  RiskCheckResult(violations = <<>>, violations, reasons, None)

check_position_limits(cfg, scfgs, rec, pos) ==
    LET NonZero(p) == p.quantity # 0
        OfSymbolNonZero(p) == p.symbol = rec.symbol /\ p.quantity # 0
        current_positions == Len(SelectSeq(pos, NonZero))
        current_count == Len(SelectSeq(pos, OfSymbolNonZero))
        is_new_position == rec.action \in OpeningActions
        total == /\ cfg.max_total_positions # None
                 /\ is_new_position
                 /\ current_positions >= Val(cfg.max_total_positions)
        per_symbol == /\ rec.symbol \in DOMAIN scfgs
                      /\ is_new_position
                      /\ current_count >= scfgs[rec.symbol].max_positions
        violations == (IF total THEN <<"POSITION_LIMIT_EXCEEDED">> ELSE <<>>)
                      \o (IF per_symbol THEN <<"POSITION_LIMIT_EXCEEDED">> ELSE <<>>)
        reasons == (IF total THEN <<"max_total_positions">> ELSE <<>>)
                   \o (IF per_symbol THEN <<"max_symbol_positions">> ELSE <<>>)
    IN  RiskCheckResult(violations = <<>>, violations, reasons, None)

\* A concentration check that already rejects at the limit.
check_concentration_AtLimit(cfg, scfgs, rec, pos, acct) ==
    LET total_equity == acct.net_liquidation
        OfSymbol(p) == p.symbol = rec.symbol
        symbol_positions == SelectSeq(pos, OfSymbol)
        current_exposure ==
            Sum([i \in DOMAIN symbol_positions |-> Abs(symbol_positions[i].market_value)])
        new_exposure == current_exposure + estimate_position_value(rec)
        global == new_exposure * 100 >= cfg.max_concentration_per_symbol * total_equity
        per_symbol == /\ rec.symbol \in DOMAIN scfgs
                      /\ scfgs[rec.symbol].max_position_size_percent # 0
                      /\ new_exposure * 100 >= scfgs[rec.symbol].max_position_size_percent * total_equity
        violations == (IF global THEN <<"CONCENTRATION_EXCEEDED">> ELSE <<>>)
                      \o (IF per_symbol THEN <<"CONCENTRATION_EXCEEDED">> ELSE <<>>)
        reasons == (IF global THEN <<"concentration_limit">> ELSE <<>>)
                   \o (IF per_symbol THEN <<"concentration_symbol_limit">> ELSE <<>>)
    IN  IF total_equity <= 0
        THEN RiskCheckResult(FALSE, <<"CONCENTRATION_EXCEEDED">>, <<"concentration_equity_zero">>, None)
        ELSE RiskCheckResult(violations = <<>>, violations, reasons, None)

check_concentration(cfg, scfgs, rec, pos, acct) ==
    LET total_equity == acct.net_liquidation
        OfSymbol(p) == p.symbol = rec.symbol
        symbol_positions == SelectSeq(pos, OfSymbol)
        current_exposure ==
            Sum([i \in DOMAIN symbol_positions |-> Abs(symbol_positions[i].market_value)])
        new_exposure == current_exposure + estimate_position_value(rec)
        global == new_exposure * 100 > cfg.max_concentration_per_symbol * total_equity
        \* limit_pct = max_position_size_percent / 100.0
        per_symbol == /\ rec.symbol \in DOMAIN scfgs
                      /\ scfgs[rec.symbol].max_position_size_percent # 0
                      /\ new_exposure * 100 > scfgs[rec.symbol].max_position_size_percent * total_equity
        violations == (IF global THEN <<"CONCENTRATION_EXCEEDED">> ELSE <<>>)
                      \o (IF per_symbol THEN <<"CONCENTRATION_EXCEEDED">> ELSE <<>>)
        reasons == (IF global THEN <<"concentration_limit">> ELSE <<>>)
                   \o (IF per_symbol THEN <<"concentration_symbol_limit">> ELSE <<>>)
    IN  IF total_equity <= 0
        THEN RiskCheckResult(FALSE, <<"CONCENTRATION_EXCEEDED">>, <<"concentration_equity_zero">>, None)
        ELSE RiskCheckResult(violations = <<>>, violations, reasons, None)

check_buying_power(rec, acct) ==
    IF estimate_buying_power_requirement(rec) > acct.buying_power
    THEN RiskCheckResult(FALSE, <<"BUYING_POWER_INSUFFICIENT">>, <<"insufficient_buying_power">>, None)
    ELSE RiskCheckResult(TRUE, <<>>, <<>>, None)

\* What validate_trade takes over from one sub-check: nothing when it approved.
Taken(check, field) == IF ~check.approved THEN check[field] ELSE <<>>

\* A validate_trade that returns at the first failing check.
validate_trade_FirstFailure(cfg, scfgs, rec, pos, acct, vix) ==
    LET vix_check == IF vix # None THEN check_vix_limits(cfg, Val(vix), rec)
                     ELSE RiskCheckResult(TRUE, <<>>, <<>>, None)
        checks == <<vix_check,
                    check_margin_usage(cfg, rec, pos, acct),
                    check_position_limits(cfg, scfgs, rec, pos),
                    check_concentration(cfg, scfgs, rec, pos, acct),
                    check_buying_power(rec, acct)>>
        failing == {i \in DOMAIN checks : ~checks[i].approved}
    IN  IF failing = {} THEN RiskCheckResult(TRUE, <<>>, <<>>, None)
        ELSE LET first == CHOOSE i \in failing : \A j \in failing : i <= j
             IN  RiskCheckResult(FALSE, checks[first].violations, checks[first].reasons,
                                 checks[first].adjusted_quantity)

validate_trade(cfg, scfgs, rec, pos, acct, vix) ==
    LET vix_check == IF vix # None THEN check_vix_limits(cfg, Val(vix), rec)
                     ELSE RiskCheckResult(TRUE, <<>>, <<>>, None)
        margin_check == check_margin_usage(cfg, rec, pos, acct)
        position_check == check_position_limits(cfg, scfgs, rec, pos)
        concentration_check == check_concentration(cfg, scfgs, rec, pos, acct)
        bp_check == check_buying_power(rec, acct)
        violations == Taken(vix_check, "violations") \o Taken(margin_check, "violations")
                      \o Taken(position_check, "violations")
                      \o Taken(concentration_check, "violations")
                      \o Taken(bp_check, "violations")
        reasons == Taken(vix_check, "reasons") \o Taken(margin_check, "reasons")
                   \o Taken(position_check, "reasons")
                   \o Taken(concentration_check, "reasons")
                   \o Taken(bp_check, "reasons")
        \* the adjusted quantity is read inside `if not vix_check.approved`
        adjusted_quantity == IF ~vix_check.approved /\ vix_check.adjusted_quantity # None
                             THEN vix_check.adjusted_quantity
                             ELSE None
    IN  RiskCheckResult(violations = <<>>, violations, reasons, adjusted_quantity)

-----------------------------------------------------------------------------
(* Inputs of the risk manager *)

MaxQuantity == 2

MaxPositionsLen == 2

RiskConfig(max_vix, reduce_above, max_total) ==
    [max_portfolio_margin_usage |-> 50, max_concentration_per_symbol |-> 25,
     max_vix_for_new_positions |-> max_vix, reduce_size_when_vix_above |-> reduce_above,
     vix_size_reduction_factor |-> 50, max_total_positions |-> max_total]

RiskConfigs ==
    {RiskConfig(None, Some(30), None), RiskConfig(Some(40), Some(30), Some(2)),
     RiskConfig(Some(40), None, None), RiskConfig(None, None, Some(2))}

\* The per-symbol fields the risk manager reads.
RiskSymbolConfigs ==
    {[s \in {"SPY"} |-> SymbolConfig("SPY", TRUE, 1, 0, 0, pct)] : pct \in {0, 10}}

RiskSymbols == {"SPY", "QQQ"}

RiskStrikes == {None, Some(1), Some(2)}

RiskRecommendations ==
    {[TradeRecommendation(a, s, q, IF a \in IronCondorActions THEN "IRON_CONDOR" ELSE "WHEEL")
        EXCEPT !.strike = k] :
        a \in Action, s \in RiskSymbols, q \in 1..MaxQuantity, k \in RiskStrikes}

RiskPositionPool ==
    <<Position("SPY", "stock", 100, 2, 200, None, None, None),
      Position("QQQ", "option", -1, 1, -100, Some(1), Some(30), Some("P")),
      Position("SPY", "option", 0, 1, 0, Some(1), Some(30), Some("P"))>>

\* Portfolios: lists over the pool, in pool order (validate_trade only counts and sums).
RiskPortfolios ==
    {[i \in DOMAIN ix |-> RiskPositionPool[ix[i]]] :
        ix \in {s \in SeqUpTo(DOMAIN RiskPositionPool, MaxPositionsLen) :
                    \A i \in 1..(Len(s) - 1) : s[i] <= s[i + 1]}}

AccountInfo(net_liquidation, buying_power, margin_used) ==
    [net_liquidation |-> net_liquidation, buying_power |-> buying_power,
     margin_used |-> margin_used]

RiskAccounts ==
    {AccountInfo(0, 300, 0), AccountInfo(1000, 300, 0), AccountInfo(1000, 300, 400),
     AccountInfo(1000, -100, 0), AccountInfo(1000, -100, 400),
     AccountInfo(1000, 300, 600)}

RiskVix == {None, Some(25), Some(35), Some(45)}

NoResult == None

-----------------------------------------------------------------------------
(* The risk manager called on one recommendation *)

\* An order executor nothing was handed to.
NoExecutor ==
    /\ dry_run = TRUE
    /\ broker_accepts = TRUE
    /\ order_history = <<>>
    /\ execution = None

\* No direct call of _find_option_by_delta.
NoSearch == search = None /\ best_option = None

\* The strategy inputs, unused by the risk manager.
NoStrategyCall ==
    /\ config = None
    /\ stock_price = 0
    /\ options_chain = <<>>
    /\ recommendations = <<>>
    /\ ic_positions = <<>>

\* The selector's arguments and result, before any call.
SelectorIdle ==
    /\ volatility = None
    /\ trend = None
    /\ selected = None

NoSelectorCall == strategy_config = None /\ current_symbol = "" /\ SelectorIdle

\* The trading cycle's variables, unused outside run_once.
NoCycle ==
    /\ market = <<>>
    /\ all_recommendations = <<>>
    /\ next_symbol = 0
    /\ next_rec = 0
    /\ validated = <<>>
    /\ executed = <<>>

InitRisk ==
    /\ phase = "risk_input"
    /\ NoExecutor
    /\ NoSearch
    /\ NoStrategyCall
    /\ NoSelectorCall
    /\ NoCycle
    /\ risk_config \in RiskConfigs
    /\ symbol_configs \in RiskSymbolConfigs
    /\ recommendation \in RiskRecommendations
    /\ positions \in RiskPortfolios
    /\ account_info \in RiskAccounts
    /\ current_vix \in RiskVix
    /\ risk_result = NoResult

\* A validation that writes the adjusted quantity into the recommendation.
ValidateTrade_RewritesQuantity ==
    /\ phase = "risk_input"
    /\ phase' = "risk_done"
    /\ LET result == validate_trade(risk_config, symbol_configs, recommendation,
                                    positions, account_info, current_vix)
       IN  /\ risk_result' = Some(result)
           /\ recommendation' =
                  IF result.adjusted_quantity # None
                  THEN [recommendation EXCEPT !.quantity = Val(result.adjusted_quantity)]
                  ELSE recommendation
    /\ UNCHANGED <<executorVars, searchVars, snapshotVars, risk_config, current_vix,
                   marketVars, strategyOut, selectorVars, cycleVars>>

ValidateTrade ==
    /\ phase = "risk_input"
    /\ phase' = "risk_done"
    /\ risk_result' = Some(validate_trade(risk_config, symbol_configs, recommendation,
                                          positions, account_info, current_vix))
    /\ UNCHANGED <<executorVars, searchVars, snapshotVars, risk_config, recommendation, current_vix,
                   marketVars, strategyOut, selectorVars, cycleVars>>

NextRisk == ValidateTrade

SpecRisk == InitRisk /\ [][NextRisk]_vars

-----------------------------------------------------------------------------
(* Claims about validate_trade, checked under SpecRisk *)

Result == Val(risk_result)

Violated(kind) == kind \in SeqToSet(Result.violations)

Reason(tag) == tag \in SeqToSet(Result.reasons)

MarginCheck == check_margin_usage(risk_config, recommendation, positions, account_info)

PositionCheck == check_position_limits(risk_config, symbol_configs, recommendation, positions)

ConcentrationCheck ==
    check_concentration(risk_config, symbol_configs, recommendation, positions, account_info)

BuyingPowerCheck == check_buying_power(recommendation, account_info)

\* Only the size-reduction threshold is exceeded, and every other check passes.
OnlyVixReduction ==
    /\ phase = "risk_done"
    /\ recommendation.action \in OpeningActions
    /\ current_vix # None
    /\ risk_config.reduce_size_when_vix_above # None
    /\ Val(current_vix) > Val(risk_config.reduce_size_when_vix_above)
    /\ \/ risk_config.max_vix_for_new_positions = None
       \/ Val(current_vix) <= Val(risk_config.max_vix_for_new_positions)
    /\ MarginCheck.approved
    /\ PositionCheck.approved
    /\ ConcentrationCheck.approved
    /\ BuyingPowerCheck.approved

\* C1: when only the VIX size-reduction threshold is exceeded and every other
\* check passes, validate_trade's result for a SELL_PUT or SELL_CALL of quantity q
\* is approved and carries an adjusted quantity strictly below q. Stated for the
\* quantities q >= 2, which a reduction factor below 1 can reduce.
C1_VixReductionNonRejecting ==
    (OnlyVixReduction /\ recommendation.quantity >= 2 /\ recommendation.strike # None) =>
        /\ Result.approved
        /\ Result.adjusted_quantity # None
        /\ Val(Result.adjusted_quantity) < recommendation.quantity

\* C2: validate_trade unions the checks without short-circuit: a recommendation
\* failing both the margin and the concentration check is rejected with both
\* MARGIN_EXCEEDED and CONCENTRATION_EXCEEDED and a reason from each; every failing
\* check's violations and reasons are in the result; approved holds exactly when
\* the violations list is empty.
C2_RiskCompositionIsUnion ==
    phase = "risk_done" =>
        /\ Result.approved <=> (Result.violations = <<>>)
        /\ (~MarginCheck.approved /\ ~ConcentrationCheck.approved) =>
              /\ ~Result.approved
              /\ Violated("MARGIN_EXCEEDED")
              /\ Violated("CONCENTRATION_EXCEEDED")
              /\ \E r \in SeqToSet(MarginCheck.reasons) : Reason(r)
              /\ \E r \in SeqToSet(ConcentrationCheck.reasons) : Reason(r)
        /\ \A check \in {MarginCheck, PositionCheck, ConcentrationCheck, BuyingPowerCheck} :
              ~check.approved =>
                  /\ SeqToSet(check.violations) \subseteq SeqToSet(Result.violations)
                  /\ SeqToSet(check.reasons) \subseteq SeqToSet(Result.reasons)
        /\ (current_vix # None /\ risk_config.max_vix_for_new_positions # None
            /\ Val(current_vix) > Val(risk_config.max_vix_for_new_positions)
            /\ recommendation.action \in OpeningActions) => Violated("VIX_TOO_HIGH")

\* A recommendation over positive equity that fails the margin, the concentration
\* and the buying-power check at once.
C2_Witness ==
    /\ phase = "risk_done"
    /\ account_info.net_liquidation > 0
    /\ ~MarginCheck.approved
    /\ ~ConcentrationCheck.approved
    /\ ~BuyingPowerCheck.approved
    /\ Len(Result.violations) >= 3

\* strike * 100 * quantity for a SELL_PUT with a strike, 0 for every other action.
Incremental ==
    IF recommendation.action = "SELL_PUT" /\ recommendation.strike # None
    THEN Val(recommendation.strike) * 100 * recommendation.quantity
    ELSE 0

\* C10: MARGIN_EXCEEDED is recorded iff net liquidation <= 0 or
\* (margin_used + incremental) / net_liquidation > max_portfolio_margin_usage, and
\* BUYING_POWER_INSUFFICIENT iff incremental > buying power, where incremental is
\* strike * 100 * quantity for a SELL_PUT with a strike and 0 for every other action.
C10_MarginAndBuyingPower ==
    phase = "risk_done" =>
        /\ Violated("MARGIN_EXCEEDED") <=>
              \/ account_info.net_liquidation <= 0
              \/ (account_info.margin_used + Incremental) * 100
                    > risk_config.max_portfolio_margin_usage * account_info.net_liquidation
        /\ Violated("BUYING_POWER_INSUFFICIENT") <=> (Incremental > account_info.buying_power)

\* A SELL_PUT over positive equity rejected for margin while its collateral fits the
\* buying power, beside which a SELL_CALL with the same numbers passes both checks.
C10_Witness ==
    /\ phase = "risk_done"
    /\ recommendation.action = "SELL_PUT"
    /\ account_info.net_liquidation > 0
    /\ Incremental > 0
    /\ Violated("MARGIN_EXCEEDED")
    /\ ~Violated("BUYING_POWER_INSUFFICIENT")

\* The symbol's exposure after the trade: the sum of |market_value| of its
\* existing positions plus strike * 100 * quantity, 0 without a strike.
ExposureAfterTrade ==
    LET held == {i \in DOMAIN positions : positions[i].symbol = recommendation.symbol}
        HeldValue[S \in SUBSET held] ==
            IF S = {} THEN 0
            ELSE LET i == CHOOSE x \in S : TRUE
                 IN  Abs(positions[i].market_value) + HeldValue[S \ {i}]
    IN  HeldValue[held]
        + (IF recommendation.strike # None
           THEN Val(recommendation.strike) * 100 * recommendation.quantity
           ELSE 0)

\* The symbol has a configuration with a max_position_size_percent override.
OverrideConfigured ==
    /\ recommendation.symbol \in DOMAIN symbol_configs
    /\ symbol_configs[recommendation.symbol].max_position_size_percent # 0

\* C11: CONCENTRATION_EXCEEDED is recorded iff net liquidation <= 0, or the
\* symbol's exposure after the trade divided by net liquidation strictly exceeds
\* max_concentration_per_symbol, or strictly exceeds the symbol's
\* max_position_size_percent / 100 when that override is configured.
C11_ConcentrationCheck ==
    phase = "risk_done" =>
        (Violated("CONCENTRATION_EXCEEDED") <=>
            \/ account_info.net_liquidation <= 0
            \/ ExposureAfterTrade * 100
                  > risk_config.max_concentration_per_symbol * account_info.net_liquidation
            \/ /\ OverrideConfigured
               /\ ExposureAfterTrade * 100
                     > symbol_configs[recommendation.symbol].max_position_size_percent
                           * account_info.net_liquidation)

\* A trade that brings the symbol exactly to its override limit passes.
C11_Witness ==
    /\ phase = "risk_done"
    /\ account_info.net_liquidation > 0
    /\ OverrideConfigured
    /\ ExposureAfterTrade > 0
    /\ ExposureAfterTrade * 100
          = symbol_configs[recommendation.symbol].max_position_size_percent
                * account_info.net_liquidation
    /\ ~Violated("CONCENTRATION_EXCEEDED")

\* The positions with a non-zero quantity, of every symbol and of the
\* recommendation's symbol.
OpenPositionCount == Cardinality({i \in DOMAIN positions : positions[i].quantity # 0})

OpenSymbolPositionCount ==
    Cardinality({i \in DOMAIN positions : /\ positions[i].quantity # 0
                                          /\ positions[i].symbol = recommendation.symbol})

\* C12: POSITION_LIMIT_EXCEEDED is recorded only for SELL_PUT and SELL_CALL, and
\* for those exactly when max_total_positions is configured and the positions
\* with non-zero quantity number at least that cap, or the symbol is configured
\* and its positions with non-zero quantity number at least its max_positions;
\* close, roll and iron-condor actions are never rejected by this check.
C12_PositionLimitCheck ==
    phase = "risk_done" =>
        (Violated("POSITION_LIMIT_EXCEEDED") <=>
            /\ recommendation.action \in {"SELL_PUT", "SELL_CALL"}
            /\ \/ /\ risk_config.max_total_positions # None
                  /\ OpenPositionCount >= Val(risk_config.max_total_positions)
               \/ /\ recommendation.symbol \in DOMAIN symbol_configs
                  /\ OpenSymbolPositionCount
                        >= symbol_configs[recommendation.symbol].max_positions)

\* A roll passes the check in a portfolio at the global cap, where an opening
\* action is rejected.
C12_Witness ==
    /\ phase = "risk_done"
    /\ recommendation.action \in {"ROLL_PUT", "CLOSE_CALL", "SELL_IRON_CONDOR"}
    /\ risk_config.max_total_positions # None
    /\ OpenPositionCount >= Val(risk_config.max_total_positions)
    /\ ~Violated("POSITION_LIMIT_EXCEEDED")

\* C21: a validation call with net liquidation <= 0 fails loudly: it ends in a
\* raised precondition failure and hands no result back to its caller.
C21_NoEquityFailsLoudly ==
    (phase = "risk_done" /\ account_info.net_liquidation <= 0) => risk_result = NoResult

\* The actions that close or roll a position.
ClosingActions ==
    {"CLOSE_PUT", "CLOSE_CALL", "CLOSE_IRON_CONDOR", "ROLL_PUT", "ROLL_CALL",
     "ROLL_IRON_CONDOR"}

\* The market value the portfolio already holds in the recommendation's symbol.
ExistingExposure ==
    LET OfSymbol(p) == p.symbol = recommendation.symbol
        symbol_positions == SelectSeq(positions, OfSymbol)
    IN  Sum([i \in DOMAIN symbol_positions |-> Abs(symbol_positions[i].market_value)])

\* The account or the portfolio is already beyond a limit, whatever is traded.
AlreadyBeyondLimit ==
    \/ account_info.net_liquidation <= 0
    \/ account_info.margin_used * 100
           > risk_config.max_portfolio_margin_usage * account_info.net_liquidation
    \/ ExistingExposure * 100
           > risk_config.max_concentration_per_symbol * account_info.net_liquidation
    \/ /\ recommendation.symbol \in DOMAIN symbol_configs
       /\ symbol_configs[recommendation.symbol].max_position_size_percent # 0
       /\ ExistingExposure * 100
              > symbol_configs[recommendation.symbol].max_position_size_percent
                    * account_info.net_liquidation
    \/ account_info.buying_power < 0

\* What C27 says of a closing or rolling recommendation that was validated.
ValidatedLikeAnyOther ==
    /\ estimate_margin_requirement(recommendation) = 0
    /\ estimate_position_value(recommendation) = 0
    /\ \A q \in 1..MaxQuantity :
          validate_trade(risk_config, symbol_configs,
                         [recommendation EXCEPT !.quantity = q],
                         positions, account_info, current_vix) = Val(risk_result)
    /\ AlreadyBeyondLimit => ~Val(risk_result).approved

-----------------------------------------------------------------------------
(* Strategy: the helpers shared by the strategies *)

\* The concatenation of a list of lists; with Optional results (<<>> or <<r>>) it
\* is the list of the results that are present.
Flatten(ss) ==
    LET acc[i \in 0..Len(ss)] == IF i = 0 THEN <<>> ELSE acc[i - 1] \o ss[i]
    IN  acc[Len(ss)]

\* The index of the last element with the least key.
FirstMinIndex_Last(keys) ==
    CHOOSE i \in DOMAIN keys :
        /\ \A j \in DOMAIN keys : keys[i] <= keys[j]
        /\ \A j \in (i + 1)..Len(keys) : keys[j] > keys[i]

\* The index of the first element of the non-empty list keys with the least key:
\* Python's min(candidates, key=...) returns the first minimal element.
FirstMinIndex(keys) ==
    CHOOSE i \in DOMAIN keys :
        /\ \A j \in DOMAIN keys : keys[i] <= keys[j]
        /\ \A j \in 1..(i - 1) : keys[j] > keys[i]

\* The quote of the given right, inside the DTE window, with a delta and a
\* positive bid and ask, whose delta is nearest the target: -|target| for puts,
\* |target| for calls. Deltas are in hundredths, expirations in days from now.
find_option_by_delta(chain, right, target_delta, min_dte, max_dte) ==
    LET Candidate(o) == /\ o.right = right
                        /\ ~(o.expiration < min_dte \/ o.expiration > max_dte)
                        /\ o.delta # None
                        /\ ~(o.bid <= 0 \/ o.ask <= 0)
        candidates == SelectSeq(chain, Candidate)
        target == IF right = "P" THEN -Abs(target_delta) ELSE Abs(target_delta)
        keys == [i \in DOMAIN candidates |-> Abs(Val(candidates[i].delta) - target)]
    IN  IF candidates = <<>> THEN None ELSE Some(candidates[FirstMinIndex(keys)])

\* (bid + ask) / 2, doubled.
MidX2(o) == o.bid + o.ask

-----------------------------------------------------------------------------
(* WheelStrategy *)

\* pnl_percent >= roll_when_pnl_percent, with
\* pnl_percent = (entry_credit - current_value) / entry_credit * 100 if entry_credit > 0 else 0
ProfitReached(position, threshold) ==
    LET entry_credit == Abs(position.avg_cost)
        current_value == Abs(position.market_value)
    IN  IF entry_credit > 0
        THEN (entry_credit - current_value) * 100 >= threshold * entry_credit
        ELSE 0 >= threshold

\* A leg check that closes the leg it finds no replacement for.
check_option_position_CloseUnreplaced(cfg, position, chain, right, close_action, roll_action) ==
    IF position.expiration = None THEN None
    ELSE
    LET dte == Val(position.expiration)
        new_option == find_option_by_delta(chain, right, cfg.target_delta,
                                           cfg.dte_min, cfg.dte_max)
        close == [TradeRecommendation(close_action, cfg.symbol, Abs(position.quantity), "WHEEL")
                    EXCEPT !.existing_position = Some(position)]
    IN  IF ProfitReached(position, cfg.roll_when_pnl_percent) THEN Some(close)
        ELSE IF dte <= cfg.roll_when_dte
             THEN IF new_option # None
                  THEN Some([TradeRecommendation(roll_action, cfg.symbol,
                                                 Abs(position.quantity), "WHEEL")
                              EXCEPT !.existing_position = Some(position),
                                     !.new_strike = Some(Val(new_option).strike),
                                     !.new_expiration = Some(Val(new_option).expiration),
                                     !.premium_x2 = Some(MidX2(Val(new_option))),
                                     !.delta = Val(new_option).delta])
                  ELSE Some(close)
             ELSE None

\* A leg check that looks at the days to expiration before the profit.
check_option_position_RollFirst(cfg, position, chain, right, close_action, roll_action) ==
    IF position.expiration = None THEN None
    ELSE
    LET dte == Val(position.expiration)
        new_option == find_option_by_delta(chain, right, cfg.target_delta,
                                           cfg.dte_min, cfg.dte_max)
    IN  IF dte <= cfg.roll_when_dte /\ new_option # None
        THEN Some([TradeRecommendation(roll_action, cfg.symbol, Abs(position.quantity), "WHEEL")
                    EXCEPT !.existing_position = Some(position),
                           !.new_strike = Some(Val(new_option).strike),
                           !.new_expiration = Some(Val(new_option).expiration),
                           !.premium_x2 = Some(MidX2(Val(new_option))),
                           !.delta = Val(new_option).delta])
        ELSE IF ProfitReached(position, cfg.roll_when_pnl_percent)
             THEN Some([TradeRecommendation(close_action, cfg.symbol, Abs(position.quantity), "WHEEL")
                         EXCEPT !.existing_position = Some(position)])
             ELSE None

\* The close-or-roll decision for one leg, the same code for puts and calls.
check_option_position(cfg, position, chain, right, close_action, roll_action) ==
    IF position.expiration = None THEN None
    ELSE
    LET dte == Val(position.expiration)
        new_option == find_option_by_delta(chain, right, cfg.target_delta,
                                           cfg.dte_min, cfg.dte_max)
    IN  IF ProfitReached(position, cfg.roll_when_pnl_percent)
        THEN Some([TradeRecommendation(close_action, cfg.symbol, Abs(position.quantity), "WHEEL")
                    EXCEPT !.existing_position = Some(position)])
        ELSE IF dte <= cfg.roll_when_dte /\ new_option # None
             THEN Some([TradeRecommendation(roll_action, cfg.symbol, Abs(position.quantity), "WHEEL")
                         EXCEPT !.existing_position = Some(position),
                                !.new_strike = Some(Val(new_option).strike),
                                !.new_expiration = Some(Val(new_option).expiration),
                                !.premium_x2 = Some(MidX2(Val(new_option))),
                                !.delta = Val(new_option).delta])
             ELSE None

check_put_position(cfg, position, chain) ==
    check_option_position(cfg, position, chain, "P", "CLOSE_PUT", "ROLL_PUT")

check_call_position(cfg, position, chain) ==
    check_option_position(cfg, position, chain, "C", "CLOSE_CALL", "ROLL_CALL")

\* A filter that knows the dollar minimum only.
PremiumTooLow_DollarOnly(cfg, price, option) ==
    cfg.min_premium > 0 /\ MidX2(option) < 2 * cfg.min_premium

\* The minimum-premium filters of _find_cash_secured_put and _find_covered_call.
PremiumTooLow(cfg, price, option) ==
    \/ cfg.min_premium > 0 /\ MidX2(option) < 2 * cfg.min_premium
    \/ cfg.min_premium_percent > 0 /\ MidX2(option) * 100 < cfg.min_premium_percent * 2 * price

\* An opening recommendation that does not say which right it sells.
SellRecommendation_NoRight(action, cfg, option, quantity) ==
    [TradeRecommendation(action, cfg.symbol, quantity, "WHEEL")
        EXCEPT !.strike = Some(option.strike),
               !.expiration = Some(option.expiration),
               !.premium_x2 = Some(MidX2(option)),
               !.delta = option.delta]

SellRecommendation(action, cfg, option, quantity) ==
    [TradeRecommendation(action, cfg.symbol, quantity, "WHEEL")
        EXCEPT !.strike = Some(option.strike),
               !.expiration = Some(option.expiration),
               !.right = Some(option.right),
               !.premium_x2 = Some(MidX2(option)),
               !.delta = option.delta]

\* A put search that skips the buying-power test.
find_cash_secured_put_NoBuyingPower(cfg, price, chain, acct, quantity) ==
    LET option == find_option_by_delta(chain, "P", cfg.target_delta, cfg.dte_min, cfg.dte_max)
    IN  IF option = None THEN None
        ELSE IF PremiumTooLow(cfg, price, Val(option)) THEN None
        ELSE Some(SellRecommendation("SELL_PUT", cfg, Val(option), quantity))

find_cash_secured_put(cfg, price, chain, acct, quantity) ==
    LET option == find_option_by_delta(chain, "P", cfg.target_delta, cfg.dte_min, cfg.dte_max)
    IN  IF option = None THEN None
        ELSE IF PremiumTooLow(cfg, price, Val(option)) THEN None
        ELSE IF Val(option).strike * 100 * quantity > acct.buying_power THEN None
        ELSE Some(SellRecommendation("SELL_PUT", cfg, Val(option), quantity))

find_covered_call(cfg, price, chain, quantity) ==
    LET option == find_option_by_delta(chain, "C", cfg.target_delta, cfg.dte_min, cfg.dte_max)
    IN  IF option = None THEN None
        ELSE IF PremiumTooLow(cfg, price, Val(option)) THEN None
        ELSE Some(SellRecommendation("SELL_CALL", cfg, Val(option), quantity))

IsStock(p) == p.position_type = "stock"

IsPut(p) == p.position_type = "option" /\ p.right = Some("P")

IsCall(p) == p.position_type = "option" /\ p.right = Some("C")

IsShort(p) == p.quantity < 0

\* sum(abs(p.quantity) for p in legs if p.quantity < 0)
TotalShort(legs) ==
    LET short == SelectSeq(legs, IsShort)
    IN  Sum([i \in DOMAIN short |-> Abs(short[i].quantity)])

\* Covered calls rounded up to the next full contract.
covered_call_contracts_RoundUp(stock_positions, total_short_calls) ==
    LET stock_qty == Sum([i \in DOMAIN stock_positions |-> stock_positions[i].quantity])
    IN  ((stock_qty + 99) \div 100) - total_short_calls

\* contracts_to_sell = (stock_qty // 100) - total_short_calls
covered_call_contracts(stock_positions, total_short_calls) ==
    LET stock_qty == Sum([i \in DOMAIN stock_positions |-> stock_positions[i].quantity])
    IN  (stock_qty \div 100) - total_short_calls

wheel_analyze(cfg, price, chain, pos, acct) ==
    IF ~cfg.enabled THEN <<>>
    ELSE
    LET stock_positions == SelectSeq(pos, IsStock)
        put_positions == SelectSeq(pos, IsPut)
        call_positions == SelectSeq(pos, IsCall)
        managed ==
            Flatten([i \in DOMAIN put_positions |->
                        check_put_position(cfg, put_positions[i], chain)])
            \o Flatten([i \in DOMAIN call_positions |->
                        check_call_position(cfg, call_positions[i], chain)])
        has_stock == \E i \in DOMAIN stock_positions : stock_positions[i].quantity > 0
        has_short_puts == \E i \in DOMAIN put_positions : put_positions[i].quantity < 0
        has_short_calls == \E i \in DOMAIN call_positions : call_positions[i].quantity < 0
        total_short_puts == TotalShort(put_positions)
        total_short_calls == TotalShort(call_positions)
        calls_to_sell == covered_call_contracts(stock_positions, total_short_calls)
        opened ==
            IF has_stock /\ ~has_short_calls
            THEN IF calls_to_sell > 0
                 THEN find_covered_call(cfg, price, chain, calls_to_sell)
                 ELSE None
            ELSE IF ~has_stock /\ ~has_short_puts
                 THEN IF total_short_puts < cfg.max_positions
                      THEN find_cash_secured_put(cfg, price, chain, acct,
                                                 cfg.max_positions - total_short_puts)
                      ELSE None
                 ELSE None
    IN  managed \o opened

-----------------------------------------------------------------------------
(* Inputs of the Wheel strategy *)

MaxChainLen == 2

\* The sub-lists of at most n elements of a pool, in pool order: a portfolio holds
\* one Position per contract and a chain one quote per contract.
DistinctFromPool(pool, n) ==
    {[i \in DOMAIN ix |-> pool[ix[i]]] :
        ix \in {s \in SeqUpTo(DOMAIN pool, n) : \A i \in 1..(Len(s) - 1) : s[i] < s[i + 1]}}

WheelConfigs ==
    {SymbolConfig("SPY", en, mp, prem, pct, 10) :
        en \in BOOLEAN, mp \in 1..MaxQuantity, prem \in {0, 3}, pct \in {0, 6}}

WheelStockPrices == {45}

WheelOptionPool ==
    <<OptionChainData(44, 35, "P", 2, 3, Some(-30)),
      OptionChainData(43, 35, "P", 3, 3, Some(-20)),
      OptionChainData(42, 35, "P", 0, 1, Some(-30)),
      OptionChainData(41, 10, "P", 3, 3, Some(-30)),
      OptionChainData(46, 35, "C", 3, 3, Some(30)),
      OptionChainData(48, 50, "C", 3, 3, Some(30)),
      OptionChainData(47, 35, "C", 2, 3, Some(30))>>

WheelPositionPool ==
    <<Position("SPY", "stock", 100, 44, 4500, None, None, None),
      Position("SPY", "stock", 250, 44, 11250, None, None, None),
      Position("SPY", "stock", -100, 44, -4500, None, None, None),
      Position("SPY", "option", -1, 2, -1, Some(44), Some(10), Some("P")),
      Position("SPY", "option", -1, 2, -2, Some(44), Some(10), Some("P")),
      Position("SPY", "option", 1, 2, 1, Some(40), Some(40), Some("P")),
      Position("SPY", "option", -1, 2, -1, Some(46), Some(10), Some("C")),
      Position("SPY", "option", -2, 0, -1, Some(47), Some(10), Some("C"))>>

WheelAccounts == {AccountInfo(10000, 4000, 0), AccountInfo(10000, 9000, 0)}

\* The risk manager's inputs, unused by a strategy called on its own.
NoRiskCall ==
    /\ risk_config = None
    /\ symbol_configs = <<>>
    /\ recommendation = None
    /\ current_vix = None
    /\ risk_result = NoResult

InitWheel ==
    /\ phase = "wheel_input"
    /\ NoExecutor
    /\ NoSearch
    /\ NoRiskCall
    /\ NoSelectorCall
    /\ NoCycle
    /\ config \in WheelConfigs
    /\ stock_price \in WheelStockPrices
    /\ options_chain \in DistinctFromPool(WheelOptionPool, MaxChainLen)
    /\ positions \in DistinctFromPool(WheelPositionPool, MaxPositionsLen)
    /\ account_info \in WheelAccounts
    /\ recommendations = <<>>
    /\ ic_positions = <<>>

WheelAnalyze ==
    /\ phase = "wheel_input"
    /\ phase' = "wheel_done"
    /\ recommendations' = wheel_analyze(config, stock_price, options_chain, positions,
                                        account_info)
    /\ UNCHANGED <<executorVars, searchVars, snapshotVars, riskVars, marketVars, ic_positions, selectorVars, cycleVars>>

NextWheel == WheelAnalyze

SpecWheel == InitWheel /\ [][NextWheel]_vars

-----------------------------------------------------------------------------
(* Claims about WheelStrategy.analyze, checked under SpecWheel *)

\* The indices of the recommendations with one of the actions.
RecsWith(actions) == {i \in DOMAIN recommendations : recommendations[i].action \in actions}

\* The indices of the recommendations that refer to the existing position p.
RecsFor(p) == {i \in DOMAIN recommendations : recommendations[i].existing_position = Some(p)}

OptionLegs == {p \in SeqToSet(positions) : p.position_type = "option"}

RightOf(p) == Val(p.right)

\* A replacement for the leg p exists at the target delta inside the DTE window.
ReplacementFor(p) ==
    find_option_by_delta(options_chain, RightOf(p), config.target_delta,
                         config.dte_min, config.dte_max)

\* C6: an option leg whose profit percent is at least roll_when_pnl_percent gets a
\* CLOSE_PUT / CLOSE_CALL and never a ROLL_PUT / ROLL_CALL, also when its DTE is at
\* or below roll_when_dte and a replacement is available; no leg gets more than one
\* recommendation.
C6_ProfitCloseBeforeRoll ==
    (phase = "wheel_done" /\ config.enabled) =>
        \A p \in OptionLegs :
            /\ Cardinality(RecsFor(p)) <= 1
            /\ ProfitReached(p, config.roll_when_pnl_percent) =>
                  /\ Cardinality(RecsFor(p)) = 1
                  /\ \A i \in RecsFor(p) :
                        recommendations[i].action =
                            (IF RightOf(p) = "P" THEN "CLOSE_PUT" ELSE "CLOSE_CALL")

\* A leg in profit, due for a roll, with a replacement in the chain, is closed.
C6_Witness ==
    /\ phase = "wheel_done"
    /\ config.enabled
    /\ \E p \in OptionLegs :
          /\ ProfitReached(p, config.roll_when_pnl_percent)
          /\ Val(p.expiration) <= config.roll_when_dte
          /\ ReplacementFor(p) # None
          /\ \E i \in RecsFor(p) : recommendations[i].action \in {"CLOSE_PUT", "CLOSE_CALL"}

StockLegs == {p \in SeqToSet(positions) : p.position_type = "stock"}

HasLongStock == \E p \in StockLegs : p.quantity > 0

HasShortPut == \E p \in OptionLegs : RightOf(p) = "P" /\ p.quantity < 0

HasShortCall == \E p \in OptionLegs : RightOf(p) = "C" /\ p.quantity < 0

\* The put nearest the target delta in the DTE window.
NearestPut ==
    find_option_by_delta(options_chain, "P", config.target_delta, config.dte_min, config.dte_max)

NearestCall ==
    find_option_by_delta(options_chain, "C", config.target_delta, config.dte_min, config.dte_max)

\* The configured premium minimums hold for the option o: its mid price
\* (bid + ask) / 2 is not below min_premium when that is above zero, nor
\* mid / stock_price * 100 below min_premium_percent when that is above zero.
PassesPremiumMinimums(o) ==
    /\ config.min_premium > 0 => (o.bid + o.ask) >= 2 * config.min_premium
    /\ config.min_premium_percent > 0 =>
          (o.bid + o.ask) * 100 >= config.min_premium_percent * 2 * stock_price

SharesHeld ==
    LET stock == SelectSeq(positions, IsStock)
    IN  Sum([i \in DOMAIN stock |-> stock[i].quantity])

AllBelowMinPremium ==
    /\ config.min_premium > 0
    /\ \A i \in DOMAIN options_chain :
          options_chain[i].bid + options_chain[i].ask < 2 * config.min_premium

\* Every quote of the chain has mid / stock_price * 100 below
\* min_premium_percent, which is above zero.
AllBelowMinPremiumPercent ==
    /\ config.min_premium_percent > 0
    /\ \A i \in DOMAIN options_chain :
          (options_chain[i].bid + options_chain[i].ask) * 100
              < config.min_premium_percent * 2 * stock_price

DueForRoll(p) ==
    /\ ~ProfitReached(p, config.roll_when_pnl_percent)
    /\ Val(p.expiration) <= config.roll_when_dte

\* C19: for a leg whose profit percent is below roll_when_pnl_percent and whose
\* DTE is at or below roll_when_dte, analyze emits a ROLL_PUT / ROLL_CALL that
\* carries the existing position and the replacement's strike, expiration, mid
\* premium and delta when a replacement exists in the DTE window, and emits
\* nothing for that leg, no close either, when none is found.
C19_RollNeedsReplacement ==
    (phase = "wheel_done" /\ config.enabled) =>
        \A p \in OptionLegs :
            DueForRoll(p) =>
                IF ReplacementFor(p) # None
                THEN /\ Cardinality(RecsFor(p)) = 1
                     /\ \A i \in RecsFor(p) :
                           /\ recommendations[i].action =
                                 (IF RightOf(p) = "P" THEN "ROLL_PUT" ELSE "ROLL_CALL")
                           /\ recommendations[i].new_strike = Some(Val(ReplacementFor(p)).strike)
                           /\ recommendations[i].new_expiration
                                 = Some(Val(ReplacementFor(p)).expiration)
                           /\ recommendations[i].premium_x2
                                 = Some(Val(ReplacementFor(p)).bid + Val(ReplacementFor(p)).ask)
                           /\ recommendations[i].delta = Val(ReplacementFor(p)).delta
                ELSE RecsFor(p) = {}

\* A put due for a roll is rolled to the chain's put while a call due for a roll
\* finds no call in the chain and is left alone.
C19_Witness ==
    /\ phase = "wheel_done"
    /\ config.enabled
    /\ \E p, q \in OptionLegs :
          /\ DueForRoll(p)
          /\ ReplacementFor(p) # None
          /\ \E i \in RecsFor(p) : recommendations[i].action = "ROLL_PUT"
          /\ DueForRoll(q)
          /\ ReplacementFor(q) = None
          /\ RecsFor(q) = {}

\* C24: the Wheel manages short option legs only: every CLOSE_PUT, CLOSE_CALL,
\* ROLL_PUT and ROLL_CALL of analyze refers to an option position of negative
\* quantity, and a long option position gets no recommendation.
C24_OnlyShortLegsManaged ==
    phase = "wheel_done" =>
        /\ \A i \in RecsWith({"CLOSE_PUT", "CLOSE_CALL", "ROLL_PUT", "ROLL_CALL"}) :
              Val(recommendations[i].existing_position).quantity < 0
        /\ \A p \in OptionLegs : p.quantity > 0 => RecsFor(p) = {}

-----------------------------------------------------------------------------
(* The Wheel's rolls under the configurations the loader accepts *)

\* The checks of ConfigLoader._validate_config on one symbol: TRUE where it
\* raises no ValueError. target_delta is in hundredths.
validate_config(cfg) ==
    /\ ~(cfg.target_delta <= 0 \/ cfg.target_delta >= 100)
    /\ ~(cfg.dte_min > cfg.dte_max)
    /\ ~(cfg.roll_when_dte > cfg.dte_min)

\* The days to expiration the configuration draws its three thresholds from.
RollThresholds == {21, 30, 35, 45}

\* The configurations of SPY over the thresholds that the loader accepts.
RollConfigs ==
    {cfg \in {[SymbolConfig("SPY", TRUE, 1, 0, 0, 10)
                 EXCEPT !.dte_min = lo, !.dte_max = hi, !.roll_when_dte = r] :
                 lo \in RollThresholds, hi \in RollThresholds, r \in RollThresholds} :
        validate_config(cfg)}

\* Puts and calls at delta 0.30 and 0.20 expiring in 30, 35 and 45 days.
RollOptionPool ==
    <<OptionChainData(44, 30, "P", 2, 3, Some(-30)),
      OptionChainData(43, 35, "P", 3, 3, Some(-20)),
      OptionChainData(42, 45, "P", 3, 3, Some(-30)),
      OptionChainData(46, 30, "C", 3, 3, Some(30)),
      OptionChainData(47, 35, "C", 3, 3, Some(20))>>

\* A short put and a short call, each without profit, about to expire or a
\* month out.
RollPositionPool ==
    <<Position("SPY", "option", -1, 2, -2, Some(44), Some(10), Some("P")),
      Position("SPY", "option", -1, 2, -2, Some(44), Some(30), Some("P")),
      Position("SPY", "option", -1, 2, -2, Some(46), Some(10), Some("C")),
      Position("SPY", "option", -1, 2, -2, Some(46), Some(30), Some("C"))>>

InitRoll ==
    /\ phase = "wheel_input"
    /\ NoExecutor
    /\ NoSearch
    /\ NoRiskCall
    /\ NoSelectorCall
    /\ NoCycle
    /\ config \in RollConfigs
    /\ stock_price = 45
    /\ options_chain \in DistinctFromPool(RollOptionPool, MaxChainLen)
    /\ positions \in DistinctFromPool(RollPositionPool, MaxPositionsLen)
    /\ account_info = AccountInfo(10000, 9000, 0)
    /\ recommendations = <<>>
    /\ ic_positions = <<>>

SpecRoll == InitRoll /\ [][NextWheel]_vars

\* C29: the replacement leg of every ROLL_PUT and ROLL_CALL expires within
\* [dte_min, dte_max] days, and, the configuration being one the loader accepts,
\* in more than roll_when_dte days, so that it is not due for a roll itself.
C29_ReplacementNotDueForRoll ==
    phase = "wheel_done" =>
        \A i \in RecsWith({"ROLL_PUT", "ROLL_CALL"}) :
            LET dte == Val(recommendations[i].new_expiration)
            IN  /\ config.dte_min <= dte
                /\ dte <= config.dte_max
                /\ dte > config.roll_when_dte

-----------------------------------------------------------------------------
(* _find_option_by_delta called on its own *)

MaxSearchLen == 3

\* The quotes a searched chain is made of: puts at the target delta, off it (two
\* strikes with one delta), without a bid, outside the narrow DTE window and
\* without a delta, and calls at and off the target. Quotes at the same distance
\* from the target have the same delta: in floating point |-0.20 + 0.30| and
\* |-0.40 + 0.30| differ, so only equal deltas give equal keys.
SearchQuotes ==
    {OptionChainData(44, 35, "P", 2, 3, Some(-30)),
     OptionChainData(43, 35, "P", 3, 3, Some(-20)),
     OptionChainData(42, 35, "P", 3, 3, Some(-20)),
     OptionChainData(41, 35, "P", 0, 1, Some(-30)),
     OptionChainData(40, 10, "P", 3, 3, Some(-30)),
     OptionChainData(39, 35, "P", 3, 3, None),
     OptionChainData(46, 35, "C", 3, 3, Some(30)),
     OptionChainData(47, 35, "C", 3, 3, Some(20)),
     OptionChainData(48, 35, "C", 3, 3, Some(20))}

\* right, target_delta, min_dte and max_dte; a target may be given with either sign.
SearchArguments ==
    {[right |-> r, target_delta |-> d, min_dte |-> w[1], max_dte |-> w[2]] :
        r \in {"P", "C"}, d \in {30, -30, 20}, w \in {<<30, 45>>, <<0, 60>>}}

InitSearch ==
    /\ phase = "search_input"
    /\ NoExecutor
    /\ NoRiskCall
    /\ NoSelectorCall
    /\ NoCycle
    /\ config = None
    /\ stock_price = 0
    /\ recommendations = <<>>
    /\ ic_positions = <<>>
    /\ positions = <<>>
    /\ account_info = AccountInfo(10000, 9000, 0)
    /\ options_chain \in SeqUpTo(SearchQuotes, MaxSearchLen)
    /\ search \in {Some(a) : a \in SearchArguments}
    /\ best_option = None

FindOptionByDelta ==
    /\ phase = "search_input"
    /\ phase' = "search_done"
    /\ best_option' = find_option_by_delta(options_chain, Val(search).right,
                                           Val(search).target_delta,
                                           Val(search).min_dte, Val(search).max_dte)
    /\ UNCHANGED <<executorVars, search, snapshotVars, riskVars, marketVars, strategyOut, selectorVars,
                   cycleVars>>

NextSearch == FindOptionByDelta

SpecSearch == InitSearch /\ [][NextSearch]_vars

-----------------------------------------------------------------------------
(* Claims on _find_option_by_delta *)

\* The quote has the requested right, a DTE inside the window, a delta and a
\* strictly positive bid and ask.
Eligible(o) ==
    /\ o.right = Val(search).right
    /\ Val(search).min_dte <= o.expiration
    /\ o.expiration <= Val(search).max_dte
    /\ o.delta # None
    /\ o.bid > 0
    /\ o.ask > 0

SearchTarget ==
    IF Val(search).right = "P"
    THEN -Abs(Val(search).target_delta)
    ELSE Abs(Val(search).target_delta)

Distance(o) == Abs(Val(o.delta) - SearchTarget)

EligibleIndices == {i \in DOMAIN options_chain : Eligible(options_chain[i])}

\* C16: _find_option_by_delta returns None exactly when the chain has no option
\* of the requested right with a DTE in the window, a delta and a strictly
\* positive bid and ask; otherwise it returns such an option that minimises
\* |delta - target|, target being -|target_delta| for puts and +|target_delta|
\* for calls, and among equally near ones the earliest of the chain.
C16_NearestDelta ==
    phase = "search_done" =>
        IF EligibleIndices = {}
        THEN best_option = None
        ELSE /\ best_option # None
             /\ \E i \in EligibleIndices :
                   /\ options_chain[i] = Val(best_option)
                   /\ \A j \in EligibleIndices :
                         Distance(options_chain[i]) <= Distance(options_chain[j])
                   /\ \A j \in EligibleIndices :
                         j < i => Distance(options_chain[j]) > Distance(options_chain[i])

\* Two puts of one delta at different strikes are the nearest: the first of the
\* chain is returned.
C16_Witness ==
    /\ phase = "search_done"
    /\ Len(options_chain) = 3
    /\ EligibleIndices = {1, 2, 3}
    /\ Distance(options_chain[1]) > Distance(options_chain[2])
    /\ Distance(options_chain[2]) = Distance(options_chain[3])
    /\ options_chain[2].strike # options_chain[3].strike
    /\ best_option = Some(options_chain[2])

-----------------------------------------------------------------------------
(* IronCondorStrategy *)

\* The parameters IronCondorStrategy.__init__ fixes: strikes and credits in
\* dollars, the thresholds in percent.
wing_width == 5

min_credit == 1

profit_target_percent == 50

max_loss_percent == 200

adjustment_threshold == 10

IsOption(p) == p.position_type = "option"

\* The keys of by_expiration in insertion order: the expirations of the option
\* positions, each at its first occurrence.
ExpirationKeys(option_positions) ==
    LET acc[i \in 0..Len(option_positions)] ==
            IF i = 0 THEN <<>>
            ELSE LET exp_key == Val(option_positions[i].expiration)
                     seen == acc[i - 1]
                 IN  IF \E j \in DOMAIN seen : seen[j] = exp_key
                     THEN seen
                     ELSE Append(seen, exp_key)
    IN  acc[Len(option_positions)]

\* sorted(pair, key=lambda p: p.strike) of a list of two legs; the sort is stable.
SortedByStrike(pair) ==
    IF Val(pair[2].strike) < Val(pair[1].strike) THEN <<pair[2], pair[1]>> ELSE pair

\* The spread found among the positions of one expiration, if any.
IronCondorAt(exp_date, exp_positions) ==
    LET puts == SelectSeq(exp_positions, IsPut)
        calls == SelectSeq(exp_positions, IsCall)
    IN  IF Len(puts) = 2 /\ Len(calls) = 2
        THEN LET puts_sorted == SortedByStrike(puts)
                 short_put == IF puts_sorted[2].quantity < 0
                              THEN puts_sorted[2] ELSE puts_sorted[1]
                 long_put == IF puts_sorted[1].quantity > 0
                             THEN puts_sorted[1] ELSE puts_sorted[2]
                 calls_sorted == SortedByStrike(calls)
                 short_call == IF calls_sorted[1].quantity < 0
                               THEN calls_sorted[1] ELSE calls_sorted[2]
                 long_call == IF calls_sorted[2].quantity > 0
                              THEN calls_sorted[2] ELSE calls_sorted[1]
             IN  IF /\ short_put.quantity < 0 /\ long_put.quantity > 0
                    /\ short_call.quantity < 0 /\ long_call.quantity > 0
                 THEN <<[expiration |-> exp_date,
                         long_put |-> long_put, short_put |-> short_put,
                         short_call |-> short_call, long_call |-> long_call]>>
                 ELSE <<>>
        ELSE <<>>

identify_iron_condor_positions(pos) ==
    LET HasExpiration(p) == IsOption(p) /\ Truthy(p.expiration)
        option_positions == SelectSeq(pos, HasExpiration)
        keys == ExpirationKeys(option_positions)
        ExpiresAt(k) == LET Same(p) == Val(p.expiration) = k
                        IN  SelectSeq(option_positions, Same)
    IN  Flatten([i \in DOMAIN keys |-> IronCondorAt(keys[i], ExpiresAt(keys[i]))])

\* entry_credit = total_credit - total_debit over the legs' avg_cost
EntryCredit(ic_position) ==
    (Abs(ic_position.short_put.avg_cost) + Abs(ic_position.short_call.avg_cost))
    - (Abs(ic_position.long_put.avg_cost) + Abs(ic_position.long_call.avg_cost))

\* current_value, the sum of the four legs' abs(market_value)
CurrentValue(ic_position) ==
    Abs(ic_position.short_put.market_value) + Abs(ic_position.short_call.market_value)
    + Abs(ic_position.long_put.market_value) + Abs(ic_position.long_call.market_value)

\* profit_pct >= profit_target_percent, with
\* profit_pct = (profit / entry_credit * 100) if entry_credit > 0 else 0
ProfitTargetReached(ic_position) ==
    LET entry_credit == EntryCredit(ic_position)
        profit == entry_credit - CurrentValue(ic_position)
    IN  IF entry_credit > 0
        THEN profit * 100 >= profit_target_percent * entry_credit
        ELSE 0 >= profit_target_percent

\* loss_pct >= max_loss_percent, with loss_pct = abs(profit_pct) if profit_pct < 0 else 0
MaxLossReached(ic_position) ==
    LET entry_credit == EntryCredit(ic_position)
        profit == entry_credit - CurrentValue(ic_position)
    IN  IF entry_credit > 0 /\ profit < 0
        THEN Abs(profit) * 100 >= max_loss_percent * entry_credit
        ELSE 0 >= max_loss_percent

\* abs(stock_price - strike) / stock_price < adjustment_threshold
StrikeTested(price, strike) == Abs(price - strike) * 100 < adjustment_threshold * price

\* The recommendation every branch of _check_iron_condor_position builds.
ManageRecommendation(action, cfg, ic_position) ==
    [TradeRecommendation(action, cfg.symbol, Abs(ic_position.short_put.quantity), "IRON_CONDOR")
        EXCEPT !.long_put_strike = ic_position.long_put.strike,
               !.short_put_strike = ic_position.short_put.strike,
               !.short_call_strike = ic_position.short_call.strike,
               !.long_call_strike = ic_position.long_call.strike,
               !.expiration = Some(ic_position.expiration)]

\* A spread check that looks at the days to expiration and at the tested strikes
\* before the profit and the loss.
check_iron_condor_position_RollFirst(cfg, ic_position, price) ==
    LET dte == ic_position.expiration
    IN  IF dte <= cfg.roll_when_dte
        THEN Some(ManageRecommendation("ROLL_IRON_CONDOR", cfg, ic_position))
        ELSE IF \/ StrikeTested(price, Val(ic_position.short_put.strike))
                \/ StrikeTested(price, Val(ic_position.short_call.strike))
        THEN Some(ManageRecommendation("ADJUST_IRON_CONDOR", cfg, ic_position))
        ELSE IF ProfitTargetReached(ic_position)
        THEN Some(ManageRecommendation("CLOSE_IRON_CONDOR", cfg, ic_position))
        ELSE IF MaxLossReached(ic_position)
        THEN Some(ManageRecommendation("CLOSE_IRON_CONDOR", cfg, ic_position))
        ELSE None

check_iron_condor_position(cfg, ic_position, price) ==
    LET dte == ic_position.expiration
    IN  IF ProfitTargetReached(ic_position)
        THEN Some(ManageRecommendation("CLOSE_IRON_CONDOR", cfg, ic_position))
        ELSE IF MaxLossReached(ic_position)
        THEN Some(ManageRecommendation("CLOSE_IRON_CONDOR", cfg, ic_position))
        ELSE IF dte <= cfg.roll_when_dte
        THEN Some(ManageRecommendation("ROLL_IRON_CONDOR", cfg, ic_position))
        ELSE IF \/ StrikeTested(price, Val(ic_position.short_put.strike))
                \/ StrikeTested(price, Val(ic_position.short_call.strike))
        THEN Some(ManageRecommendation("ADJUST_IRON_CONDOR", cfg, ic_position))
        ELSE None

\* sorted(list(expirations)) of the chain's expirations inside the DTE window,
\* as the set it is built from; the caller takes its least element.
get_valid_expirations(cfg, chain) ==
    {chain[i].expiration : i \in {j \in DOMAIN chain :
        cfg.dte_min <= chain[j].expiration /\ chain[j].expiration <= cfg.dte_max}}

\* A lookup that takes a quote nobody bids for or offers.
find_option_at_strike_AnyQuote(chain, right, strike, expiration) ==
    LET Matches(o) == /\ o.right = right
                      /\ o.strike = strike
                      /\ o.expiration = expiration
        found == SelectSeq(chain, Matches)
    IN  IF found = <<>> THEN None ELSE Some(found[1])

\* The first quote of the chain with the right, strike and expiration asked for
\* and a positive bid and ask.
find_option_at_strike(chain, right, strike, expiration) ==
    LET Matches(o) == /\ o.right = right
                      /\ o.strike = strike
                      /\ o.expiration = expiration
                      /\ o.bid > 0 /\ o.ask > 0
        found == SelectSeq(chain, Matches)
    IN  IF found = <<>> THEN None ELSE Some(found[1])

\* The four legs _find_new_iron_condor settles on, or None where it gives up
\* before the credit is looked at.
NewIronCondorLegs(cfg, chain) ==
    LET expirations == get_valid_expirations(cfg, chain)
    IN  IF expirations = {} THEN None
        ELSE
        LET target_exp == CHOOSE e \in expirations : \A f \in expirations : e <= f
            short_put == find_option_by_delta(chain, "P", 30, cfg.dte_min, cfg.dte_max)
            short_call == find_option_by_delta(chain, "C", 30, cfg.dte_min, cfg.dte_max)
        IN  IF short_put = None \/ Val(short_put).expiration # target_exp THEN None
            ELSE
            LET long_put == find_option_at_strike(chain, "P",
                                Val(short_put).strike - wing_width, target_exp)
            IN  IF long_put = None THEN None
                ELSE IF short_call = None \/ Val(short_call).expiration # target_exp THEN None
                ELSE
                LET long_call == find_option_at_strike(chain, "C",
                                    Val(short_call).strike + wing_width, target_exp)
                IN  IF long_call = None THEN None
                    ELSE Some([expiration |-> target_exp,
                               long_put |-> Val(long_put), short_put |-> Val(short_put),
                               short_call |-> Val(short_call), long_call |-> Val(long_call)])

\* net_credit, doubled: the short legs' mid prices less the long legs' mid prices.
NetCreditX2(legs) ==
    (MidX2(legs.short_put) + MidX2(legs.short_call))
    - (MidX2(legs.long_put) + MidX2(legs.long_call))

\* expected_credit, max_loss and max_profit are per contract, in dollars: the
\* doubled per-share amounts times 50.
find_new_iron_condor(cfg, price, chain, acct) ==
    LET found == NewIronCondorLegs(cfg, chain)
    IN  IF found = None THEN None
        ELSE
        LET legs == Val(found)
            net_credit_x2 == NetCreditX2(legs)
            put_spread_width == legs.short_put.strike - legs.long_put.strike
            call_spread_width == legs.long_call.strike - legs.short_call.strike
            max_loss_x2 == 2 * Max2(put_spread_width, call_spread_width) - net_credit_x2
        IN  IF net_credit_x2 < 2 * min_credit THEN None
            ELSE Some([TradeRecommendation("SELL_IRON_CONDOR", cfg.symbol, 1, "IRON_CONDOR")
                        EXCEPT !.long_put_strike = Some(legs.long_put.strike),
                               !.short_put_strike = Some(legs.short_put.strike),
                               !.short_call_strike = Some(legs.short_call.strike),
                               !.long_call_strike = Some(legs.long_call.strike),
                               !.expiration = Some(legs.expiration),
                               !.expected_credit = Some(net_credit_x2 * 50),
                               !.max_loss = Some(max_loss_x2 * 50),
                               !.max_profit = Some(net_credit_x2 * 50)])

\* An analyze that does not look at the enabled flag.
iron_condor_analyze_IgnoreEnabled(cfg, price, chain, pos, acct) ==
    LET spreads == identify_iron_condor_positions(pos)
        managed == Flatten([i \in DOMAIN spreads |->
                               check_iron_condor_position(cfg, spreads[i], price)])
        opened == IF Len(spreads) < cfg.max_positions
                  THEN find_new_iron_condor(cfg, price, chain, acct)
                  ELSE None
    IN  managed \o opened

iron_condor_analyze(cfg, price, chain, pos, acct) ==
    IF ~cfg.enabled THEN <<>>
    ELSE
    LET spreads == identify_iron_condor_positions(pos)
        managed == Flatten([i \in DOMAIN spreads |->
                               check_iron_condor_position(cfg, spreads[i], price)])
        opened == IF Len(spreads) < cfg.max_positions
                  THEN find_new_iron_condor(cfg, price, chain, acct)
                  ELSE None
    IN  managed \o opened

-----------------------------------------------------------------------------
(* Inputs of the Iron Condor strategy *)

\* How many further spreads, at later expirations, the portfolio may hold next
\* to the one under study.
MaxOtherSpreads == 1

IronCondorConfigs ==
    {SymbolConfig("SPY", en, mp, 0, 0, 10) : en \in BOOLEAN, mp \in 1..MaxQuantity}

\* 450 is inside 10% of the short strikes 440 and 460, 520 is outside.
IronCondorStockPrices == {450, 520}

\* The signed quantity of a leg: short or long.
LegQuantities == {-1, 1}

\* What the four legs cost and are worth now, listed by ascending strike within
\* the puts and then the calls: half the credit kept, the credit unchanged, a loss
\* of twice the credit, a loss of less than that, and a spread opened for a debit.
LegMarks ==
    {[avg_cost |-> <<1, 3, 3, 1>>, market_value |-> <<0, 1, 1, 0>>],
     [avg_cost |-> <<1, 3, 3, 1>>, market_value |-> <<1, 1, 1, 1>>],
     [avg_cost |-> <<1, 3, 3, 1>>, market_value |-> <<1, 5, 5, 1>>],
     [avg_cost |-> <<1, 3, 3, 1>>, market_value |-> <<1, 4, 4, 1>>],
     [avg_cost |-> <<3, 1, 1, 3>>, market_value |-> <<1, 0, 0, 1>>]}

\* Two puts and two calls of one expiration at the strikes 435/440 and 460/465.
FourLegs(qty, marks, dte) ==
    LET strikes == <<435, 440, 460, 465>>
        rights == <<"P", "P", "C", "C">>
    IN  [i \in 1..4 |->
            Position("SPY", "option", qty[i], marks.avg_cost[i],
                     qty[i] * marks.market_value[i],
                     Some(strikes[i]), Some(dte), Some(rights[i]))]

\* A well-formed spread expiring 40 + 7 * k days from now, its credit unchanged.
OtherSpread(k) ==
    FourLegs(<<1, -1, -1, 1>>,
             [avg_cost |-> <<1, 3, 3, 1>>, market_value |-> <<1, 1, 1, 1>>], 40 + 7 * k)

OtherSpreads(n) ==
    LET acc[i \in 0..n] == IF i = 0 THEN <<>> ELSE acc[i - 1] \o OtherSpread(i)
    IN  acc[n]

Reversed(s) == [i \in DOMAIN s |-> s[Len(s) + 1 - i]]

\* The portfolios: nothing, or four legs of one expiration in either order, with
\* or without their last leg, next to up to MaxOtherSpreads further spreads.
IronCondorPortfolios ==
    {<<>>} \cup
    {order \o OtherSpreads(n) :
        order \in UNION {{legs, Reversed(legs), SubSeq(legs, 1, 3)} :
                    legs \in {FourLegs(qty, marks, dte) :
                                qty \in [1..4 -> LegQuantities],
                                marks \in LegMarks,
                                dte \in {10, 30}}},
        n \in 0..MaxOtherSpreads}

\* The quotes of a chain from which a spread can be opened for a credit of 4.
IronCondorQuotes ==
    <<OptionChainData(440, 35, "P", 3, 3, Some(-30)),
      OptionChainData(435, 35, "P", 1, 1, Some(-20)),
      OptionChainData(460, 35, "C", 3, 3, Some(30)),
      OptionChainData(465, 35, "C", 1, 1, Some(20))>>

\* The chains: none, the four quotes, the four quotes without the long put, with
\* the short call a week later, with wings as dear as the short legs, and with a
\* long put nobody bids for.
IronCondorChains ==
    {<<>>,
     IronCondorQuotes,
     SubSeq(IronCondorQuotes, 1, 1) \o SubSeq(IronCondorQuotes, 3, 4),
     [IronCondorQuotes EXCEPT ![3] = OptionChainData(460, 42, "C", 3, 3, Some(30))],
     [IronCondorQuotes EXCEPT ![2] = OptionChainData(435, 35, "P", 3, 3, Some(-20)),
                              ![4] = OptionChainData(465, 35, "C", 3, 3, Some(20))],
     [IronCondorQuotes EXCEPT ![2] = OptionChainData(435, 35, "P", 0, 1, Some(-20))]}

InitIronCondor ==
    /\ phase = "ic_input"
    /\ NoExecutor
    /\ NoSearch
    /\ NoRiskCall
    /\ NoSelectorCall
    /\ NoCycle
    /\ config \in IronCondorConfigs
    /\ stock_price \in IronCondorStockPrices
    /\ options_chain \in IronCondorChains
    /\ positions \in IronCondorPortfolios
    /\ account_info = AccountInfo(10000, 9000, 0)
    /\ recommendations = <<>>
    /\ ic_positions = <<>>

\* A direct call of _identify_iron_condor_positions.
IdentifyIronCondors ==
    /\ phase = "ic_input"
    /\ phase' = "ic_identified"
    /\ ic_positions' = identify_iron_condor_positions(positions)
    /\ UNCHANGED <<executorVars, searchVars, snapshotVars, riskVars, marketVars, recommendations,
                   selectorVars, cycleVars>>

\* IronCondorStrategy.analyze; a disabled symbol returns before the portfolio is
\* looked at.
IronCondorAnalyze ==
    /\ phase = "ic_input"
    /\ phase' = "ic_done"
    /\ ic_positions' = IF config.enabled
                       THEN identify_iron_condor_positions(positions) ELSE <<>>
    /\ recommendations' = iron_condor_analyze(config, stock_price, options_chain,
                                              positions, account_info)
    /\ UNCHANGED <<executorVars, searchVars, snapshotVars, riskVars, marketVars, selectorVars, cycleVars>>

NextIronCondor == IdentifyIronCondors \/ IronCondorAnalyze

SpecIronCondor == InitIronCondor /\ [][NextIronCondor]_vars

\* Either strategy called on its inputs.
InitStrategies == InitWheel \/ InitIronCondor

NextStrategies == NextWheel \/ NextIronCondor

SpecStrategies == InitStrategies /\ [][NextStrategies]_vars

-----------------------------------------------------------------------------
(* Claims on the Iron Condor strategy *)

OptionPositions == SelectSeq(positions, IsOption)

\* The two puts and the two calls of a portfolio of four legs of one expiration,
\* each pair by ascending strike.
LowerPut ==
    LET puts == SelectSeq(positions, IsPut)
    IN  IF Val(puts[1].strike) < Val(puts[2].strike) THEN puts[1] ELSE puts[2]

HigherPut ==
    LET puts == SelectSeq(positions, IsPut)
    IN  IF Val(puts[1].strike) < Val(puts[2].strike) THEN puts[2] ELSE puts[1]

LowerCall ==
    LET calls == SelectSeq(positions, IsCall)
    IN  IF Val(calls[1].strike) < Val(calls[2].strike) THEN calls[1] ELSE calls[2]

HigherCall ==
    LET calls == SelectSeq(positions, IsCall)
    IN  IF Val(calls[1].strike) < Val(calls[2].strike) THEN calls[2] ELSE calls[1]

\* The portfolio is two puts and two calls of one expiration and nothing else.
TwoPutsTwoCalls ==
    /\ Len(positions) = 4
    /\ Len(OptionPositions) = 4
    /\ Len(SelectSeq(positions, IsPut)) = 2
    /\ Len(SelectSeq(positions, IsCall)) = 2
    /\ \A i \in DOMAIN positions : positions[i].expiration = positions[1].expiration

\* Long put below short put, short call below long call.
ValidIronCondor ==
    /\ LowerPut.quantity > 0
    /\ HigherPut.quantity < 0
    /\ LowerCall.quantity < 0
    /\ HigherCall.quantity > 0

\* C4: _identify_iron_condor_positions turns four legs of one expiration that
\* form a valid iron condor into exactly one group carrying the input strikes,
\* and two puts and two calls that break a sign or role constraint into no group.
C4_SpreadReconstruction ==
    (phase = "ic_identified" /\ TwoPutsTwoCalls) =>
        IF ValidIronCondor
        THEN /\ Len(ic_positions) = 1
             /\ ic_positions[1].long_put.strike = LowerPut.strike
             /\ ic_positions[1].short_put.strike = HigherPut.strike
             /\ ic_positions[1].short_call.strike = LowerCall.strike
             /\ ic_positions[1].long_call.strike = HigherCall.strike
        ELSE Len(ic_positions) = 0

ManagementActions == {"CLOSE_IRON_CONDOR", "ROLL_IRON_CONDOR", "ADJUST_IRON_CONDOR"}

\* The management recommendations analyze returned for a spread; a portfolio
\* holds at most one spread per expiration.
ManagedFor(ic_position) ==
    SelectSeq(recommendations,
              LAMBDA r : /\ r.action \in ManagementActions
                         /\ r.expiration = Some(ic_position.expiration))

\* profit percent >= 50 or loss percent >= 200
CloseTriggered(ic_position) ==
    LET entry_credit == EntryCredit(ic_position)
        profit == entry_credit - CurrentValue(ic_position)
    IN  /\ entry_credit > 0
        /\ \/ 100 * profit >= 50 * entry_credit
           \/ 100 * (-profit) >= 200 * entry_credit

RollTriggered(ic_position) == ic_position.expiration <= config.roll_when_dte

\* The stock price is within 10% of itself of a short strike.
AdjustTriggered(ic_position) ==
    \/ 10 * Abs(stock_price - Val(ic_position.short_put.strike)) < stock_price
    \/ 10 * Abs(stock_price - Val(ic_position.short_call.strike)) < stock_price

\* The action the fixed order profit close, loss close, roll, adjust calls for.
FirstTriggered(ic_position) ==
    IF CloseTriggered(ic_position) THEN <<"CLOSE_IRON_CONDOR">>
    ELSE IF RollTriggered(ic_position) THEN <<"ROLL_IRON_CONDOR">>
    ELSE IF AdjustTriggered(ic_position) THEN <<"ADJUST_IRON_CONDOR">>
    ELSE <<>>

\* C7: for each reconstructed spread analyze emits at most one management
\* recommendation, the one of the first condition triggered in the order profit
\* close, loss close, DTE roll, tested-strike adjust: a close whenever the profit
\* is at least 50% or the loss at least 200% of the credit, a roll only when no
\* close condition holds and DTE <= roll_when_dte, an adjustment only when none
\* of these hold and the price is within 10% of a short strike.
C7_FirstTriggerWins ==
    (phase = "ic_done" /\ config.enabled) =>
        \A i \in DOMAIN ic_positions :
            LET managed == ManagedFor(ic_positions[i])
            IN  /\ Len(managed) <= 1
                /\ [j \in DOMAIN managed |-> managed[j].action]
                       = FirstTriggered(ic_positions[i])

\* A spread past its profit target, inside the roll window and with tested
\* strikes is closed, next to a second spread that is only adjusted.
C7_Witness ==
    /\ phase = "ic_done"
    /\ config.enabled
    /\ Len(ic_positions) = 2
    /\ ic_positions[1].short_put.strike = Some(440)
    /\ ic_positions[1].short_call.strike = Some(460)
    /\ CloseTriggered(ic_positions[1])
    /\ RollTriggered(ic_positions[1])
    /\ AdjustTriggered(ic_positions[1])
    /\ ~RollTriggered(ic_positions[2])
    /\ Len(ManagedFor(ic_positions[1])) = 1
    /\ ManagedFor(ic_positions[1])[1].action = "CLOSE_IRON_CONDOR"
    /\ Len(ManagedFor(ic_positions[2])) = 1
    /\ ManagedFor(ic_positions[2])[1].action = "ADJUST_IRON_CONDOR"

\* A quote of the chain that can serve as a leg: right, strike and expiration as
\* asked for, bid and ask positive.
QuotedLeg(o, right, strike, expiration) ==
    /\ o.right = right
    /\ o.strike = strike
    /\ o.expiration = expiration
    /\ o.bid > 0
    /\ o.ask > 0

\* The recommendation r is built from four quotes of the chain as C15 says.
BuiltFromChain(r) ==
    /\ r.expiration # None
    /\ config.dte_min <= Val(r.expiration)
    /\ Val(r.expiration) <= config.dte_max
    /\ Val(r.long_put_strike) = Val(r.short_put_strike) - wing_width
    /\ Val(r.long_call_strike) = Val(r.short_call_strike) + wing_width
    /\ \E lp, sp, sc, lc \in DOMAIN options_chain :
        LET long_put == options_chain[lp]
            short_put == options_chain[sp]
            short_call == options_chain[sc]
            long_call == options_chain[lc]
            net_x2 == (short_put.bid + short_put.ask) + (short_call.bid + short_call.ask)
                      - (long_put.bid + long_put.ask) - (long_call.bid + long_call.ask)
            put_width == short_put.strike - long_put.strike
            call_width == long_call.strike - short_call.strike
            width == IF put_width >= call_width THEN put_width ELSE call_width
        IN  /\ QuotedLeg(long_put, "P", Val(r.long_put_strike), Val(r.expiration))
            /\ QuotedLeg(short_put, "P", Val(r.short_put_strike), Val(r.expiration))
            /\ QuotedLeg(short_call, "C", Val(r.short_call_strike), Val(r.expiration))
            /\ QuotedLeg(long_call, "C", Val(r.long_call_strike), Val(r.expiration))
            /\ net_x2 >= 2 * min_credit
            /\ r.expected_credit = Some(net_x2 * 50)
            /\ r.max_profit = r.expected_credit
            /\ r.max_loss = Some((2 * width - net_x2) * 50)

\* The short legs the delta search resolves to.
ShortPutLeg == find_option_by_delta(options_chain, "P", 30, config.dte_min, config.dte_max)

ShortCallLeg == find_option_by_delta(options_chain, "C", 30, config.dte_min, config.dte_max)

\* A short leg is not found, or the chain quotes no wing for it at the exact
\* strike and the short leg's expiration.
LegMissing ==
    \/ ShortPutLeg = None
    \/ ShortCallLeg = None
    \/ /\ ShortPutLeg # None
       /\ ~\E i \in DOMAIN options_chain :
             QuotedLeg(options_chain[i], "P", Val(ShortPutLeg).strike - wing_width,
                       Val(ShortPutLeg).expiration)
    \/ /\ ShortCallLeg # None
       /\ ~\E i \in DOMAIN options_chain :
             QuotedLeg(options_chain[i], "C", Val(ShortCallLeg).strike + wing_width,
                       Val(ShortCallLeg).expiration)

ShortLegsDiffer ==
    /\ ShortPutLeg # None
    /\ ShortCallLeg # None
    /\ Val(ShortPutLeg).expiration # Val(ShortCallLeg).expiration

\* C15: every SELL_IRON_CONDOR of IronCondorStrategy.analyze is built from four
\* quotes of the chain that share one expiration inside [dte_min, dte_max] and
\* have a positive bid and ask, the long strikes exactly wing_width outside the
\* short strikes, a net credit of at least min_credit, max_profit =
\* expected_credit = net credit * 100 and max_loss = (the wider spread - net
\* credit) * 100; when a leg is missing or the short legs resolve to different
\* expirations nothing is opened.
C15_NewIronCondor ==
    phase = "ic_done" =>
        /\ \A i \in DOMAIN recommendations :
              recommendations[i].action = "SELL_IRON_CONDOR"
                  => BuiltFromChain(recommendations[i])
        /\ (LegMissing \/ ShortLegsDiffer)
              => \A i \in DOMAIN recommendations :
                    recommendations[i].action # "SELL_IRON_CONDOR"

\* The condor 435/440/460/465 is opened for a credit of 4 a share next to a
\* spread that is held.
C15_Witness ==
    /\ phase = "ic_done"
    /\ Len(ic_positions) = 1
    /\ \E i \in DOMAIN recommendations :
        /\ recommendations[i].action = "SELL_IRON_CONDOR"
        /\ recommendations[i].long_put_strike = Some(435)
        /\ recommendations[i].short_put_strike = Some(440)
        /\ recommendations[i].short_call_strike = Some(460)
        /\ recommendations[i].long_call_strike = Some(465)
        /\ recommendations[i].expiration = Some(35)
        /\ recommendations[i].expected_credit = Some(400)
        /\ recommendations[i].max_profit = Some(400)
        /\ recommendations[i].max_loss = Some(100)

\* C18: with enabled = false both WheelStrategy.analyze and
\* IronCondorStrategy.analyze return the empty list, whatever the price, the
\* chain, the positions and the account.
C18_DisabledSymbol ==
    (phase \in {"wheel_done", "ic_done"} /\ ~config.enabled) => recommendations = <<>>

\* A disabled Wheel returns nothing for a portfolio with a short leg past its
\* profit target.
C18_Witness ==
    /\ phase = "wheel_done"
    /\ ~config.enabled
    /\ \E p \in OptionLegs : p.quantity < 0 /\ ProfitReached(p, config.roll_when_pnl_percent)
    /\ recommendations = <<>>

\* The single-leg fields of a recommendation: all of them set, none of them set.
SingleLegPopulated(r) ==
    /\ r.strike # None
    /\ r.expiration # None
    /\ r.right # None
    /\ r.premium_x2 # None
    /\ r.delta # None

SingleLegEmpty(r) ==
    /\ r.strike = None
    /\ r.expiration = None
    /\ r.right = None
    /\ r.premium_x2 = None
    /\ r.delta = None

\* The four-leg strike fields: all of them set, none of them set.
FourLegPopulated(r) ==
    /\ r.long_put_strike # None
    /\ r.short_put_strike # None
    /\ r.short_call_strike # None
    /\ r.long_call_strike # None

FourLegEmpty(r) ==
    /\ r.long_put_strike = None
    /\ r.short_put_strike = None
    /\ r.short_call_strike = None
    /\ r.long_call_strike = None

\* C20 as stated: in every TradeRecommendation either analyze emits exactly one
\* of the two field groups is populated, the single-leg fields (strike,
\* expiration, right, premium, delta) for Wheel recommendations and the four
\* strike fields for Iron Condor recommendations. A group counts as populated
\* when all its fields are set.
C20_ExactlyOneGroup ==
    phase \in {"wheel_done", "ic_done"} =>
        \A i \in DOMAIN recommendations :
            LET r == recommendations[i]
            IN  /\ r.strategy_type = "WHEEL" =>
                      SingleLegPopulated(r) /\ ~FourLegPopulated(r)
                /\ r.strategy_type = "IRON_CONDOR" =>
                      FourLegPopulated(r) /\ ~SingleLegPopulated(r)

\* C20, amended: the strategy_type follows the action; a Wheel recommendation
\* sets none of the four strike fields, an Iron Condor recommendation sets all
\* four, its expiration, and none of strike, right, premium and delta. Of the
\* Wheel recommendations SELL_PUT / SELL_CALL set all five single-leg fields,
\* CLOSE_PUT / CLOSE_CALL set none of them and carry the existing position only,
\* ROLL_PUT / ROLL_CALL set premium and delta, the existing position, new_strike
\* and new_expiration.
C20_RecommendationShape ==
    phase \in {"wheel_done", "ic_done"} =>
        \A i \in DOMAIN recommendations :
            LET r == recommendations[i]
            IN  /\ r.strategy_type = "WHEEL" <=>
                      r.action \in {"SELL_PUT", "SELL_CALL", "CLOSE_PUT", "CLOSE_CALL",
                                    "ROLL_PUT", "ROLL_CALL"}
                /\ r.strategy_type = "IRON_CONDOR" <=>
                      r.action \in {"SELL_IRON_CONDOR", "CLOSE_IRON_CONDOR",
                                    "ROLL_IRON_CONDOR", "ADJUST_IRON_CONDOR"}
                /\ r.strategy_type \in {"WHEEL", "IRON_CONDOR"}
                /\ r.strategy_type = "WHEEL" => FourLegEmpty(r)
                /\ r.action \in {"SELL_PUT", "SELL_CALL"} =>
                      /\ SingleLegPopulated(r)
                      /\ r.right = Some(IF r.action = "SELL_PUT" THEN "P" ELSE "C")
                      /\ r.existing_position = None
                /\ r.action \in {"CLOSE_PUT", "CLOSE_CALL"} =>
                      /\ SingleLegEmpty(r)
                      /\ r.existing_position # None
                      /\ r.new_strike = None
                      /\ r.new_expiration = None
                /\ r.action \in {"ROLL_PUT", "ROLL_CALL"} =>
                      /\ r.strike = None /\ r.expiration = None /\ r.right = None
                      /\ r.premium_x2 # None /\ r.delta # None
                      /\ r.existing_position # None
                      /\ r.new_strike # None
                      /\ r.new_expiration # None
                /\ r.strategy_type = "IRON_CONDOR" =>
                      /\ FourLegPopulated(r)
                      /\ r.expiration # None
                      /\ r.strike = None /\ r.right = None
                      /\ r.premium_x2 = None /\ r.delta = None

\* A put past its profit target is closed with no single-leg field set while a
\* call is sold over the shares held with all five set.
C20_Witness ==
    /\ phase = "wheel_done"
    /\ \E i, j \in DOMAIN recommendations :
          /\ recommendations[i].action = "CLOSE_PUT"
          /\ SingleLegEmpty(recommendations[i])
          /\ FourLegEmpty(recommendations[i])
          /\ recommendations[j].action = "SELL_CALL"
          /\ SingleLegPopulated(recommendations[j])

-----------------------------------------------------------------------------
(* IronCondorStrategy.analyze called cycle after cycle, every opening filled *)

\* How many openings are filled before the cycles stop.
MaxOpenings == 3

\* The four quotes of IronCondorQuotes one week further out.
LaterIronCondorQuotes ==
    [i \in DOMAIN IronCondorQuotes |->
        [IronCondorQuotes[i] EXCEPT !.expiration = 42]]

IronCondorCycleChains == IronCondorChains \cup {LaterIronCondorQuotes}

\* The portfolio after a fill of qty contracts of one option at the price cost:
\* the broker keeps one portfolio line per contract, so a fill in a contract
\* already held changes the quantity of its line, and a fill in a new contract
\* adds a line.
FillLeg(pos, symbol, strike, expiration, right, qty, cost) ==
    LET SameContract(p) == /\ p.position_type = "option"
                           /\ p.symbol = symbol
                           /\ p.strike = Some(strike)
                           /\ p.expiration = Some(expiration)
                           /\ p.right = Some(right)
        held == {i \in DOMAIN pos : SameContract(pos[i])}
    IN  IF held = {}
        THEN Append(pos, Position(symbol, "option", qty, cost, qty * cost,
                                  Some(strike), Some(expiration), Some(right)))
        ELSE LET i == CHOOSE j \in held : TRUE
             IN  [pos EXCEPT ![i].quantity = @ + qty,
                             ![i].market_value = @ + qty * cost]

\* The mid price of the quote a leg is filled at.
FillPrice(chain, right, strike, expiration) ==
    MidX2(Val(find_option_at_strike(chain, right, strike, expiration))) \div 2

\* The portfolio after the four legs of a SELL_IRON_CONDOR are filled.
FillIronCondor(pos, chain, rec) ==
    LET exp == Val(rec.expiration)
        Leg(p, right, strike, sign) ==
            FillLeg(p, rec.symbol, strike, exp, right, sign * rec.quantity,
                    FillPrice(chain, right, strike, exp))
    IN  Leg(Leg(Leg(Leg(pos, "P", Val(rec.long_put_strike), 1),
                    "P", Val(rec.short_put_strike), -1),
                "C", Val(rec.short_call_strike), -1),
            "C", Val(rec.long_call_strike), 1)

\* The portfolio after every SELL_IRON_CONDOR of a list is filled, in order.
FillOpenings(pos, chain, recs) ==
    LET acc[i \in 0..Len(recs)] ==
            IF i = 0 THEN pos
            ELSE LET before == acc[i - 1]
                 IN  IF recs[i].action = "SELL_IRON_CONDOR"
                     THEN FillIronCondor(before, chain, recs[i])
                     ELSE before
    IN  acc[Len(recs)]

\* The spreads sold and not bought back: a spread has one short put a contract.
OpenIronCondors(pos) ==
    LET ShortPuts(p) == IF IsPut(p) /\ p.quantity < 0 THEN -p.quantity ELSE 0
    IN  Sum([i \in DOMAIN pos |-> ShortPuts(pos[i])])

InitIronCondorCycles ==
    /\ phase = "icc_input"
    /\ NoExecutor
    /\ NoSearch
    /\ NoRiskCall
    /\ NoSelectorCall
    /\ NoCycle
    /\ config \in IronCondorConfigs
    /\ stock_price \in IronCondorStockPrices
    /\ options_chain \in IronCondorCycleChains
    /\ positions = <<>>
    /\ account_info = AccountInfo(10000, 9000, 0)
    /\ recommendations = <<>>
    /\ ic_positions = <<>>

\* IronCondorStrategy.analyze on this cycle's positions and market data.
IronCondorCycleAnalyze ==
    /\ phase = "icc_input"
    /\ phase' = "icc_done"
    /\ ic_positions' = IF config.enabled
                       THEN identify_iron_condor_positions(positions) ELSE <<>>
    /\ recommendations' = iron_condor_analyze(config, stock_price, options_chain,
                                              positions, account_info)
    /\ UNCHANGED <<executorVars, searchVars, snapshotVars, riskVars, marketVars,
                   selectorVars, cycleVars>>

\* The openings of the cycle are filled and the next cycle fetches the portfolio
\* and new market data.
IronCondorCycleFill ==
    /\ phase = "icc_done"
    /\ OpenIronCondors(positions) < MaxOpenings
    /\ phase' = "icc_input"
    /\ positions' = FillOpenings(positions, options_chain, recommendations)
    /\ stock_price' \in IronCondorStockPrices
    /\ options_chain' \in IronCondorCycleChains
    /\ recommendations' = <<>>
    /\ ic_positions' = <<>>
    /\ UNCHANGED <<executorVars, searchVars, symbol_configs, account_info, riskVars,
                   config, selectorVars, cycleVars>>

NextIronCondorCycles == IronCondorCycleAnalyze \/ IronCondorCycleFill

SpecIronCondorCycles == InitIronCondorCycles /\ [][NextIronCondorCycles]_vars

\* C25: with every SELL_IRON_CONDOR filled and its legs in the next cycle's
\* portfolio, the open iron condors of the symbol never exceed max_positions.
C25_SpreadCapHolds ==
    phase \in {"icc_input", "icc_done"} =>
        OpenIronCondors(positions) <= config.max_positions

-----------------------------------------------------------------------------
(* StrategySelector *)

StrategyConfig(wheel_enabled, iron_condor_enabled) ==
    [wheel_enabled |-> wheel_enabled, iron_condor_enabled |-> iron_condor_enabled,
     strangle_enabled |-> FALSE]

\* str.lower() on the trend hints the model draws from.
Lower(s) ==
    CASE s = "BULLISH" -> "bullish"
      [] s = "Neutral" -> "neutral"
      [] OTHER -> s

\* Python truthiness of an Optional[str]: None and "" are false.
TruthyStr(o) == o # None /\ Val(o) # ""

detect_current_strategy(pos) ==
    LET has_stock == \E i \in DOMAIN pos : pos[i].position_type = "stock"
        option_positions == SelectSeq(pos, IsOption)
        puts == SelectSeq(option_positions, LAMBDA p : p.right = Some("P"))
        calls == SelectSeq(option_positions, LAMBDA p : p.right = Some("C"))
    IN  IF has_stock THEN Some("WHEEL")
        ELSE IF Len(option_positions) = 1 THEN Some("WHEEL")
        ELSE IF Len(option_positions) = 4 /\ Len(puts) = 2 /\ Len(calls) = 2
             THEN Some("IRON_CONDOR")
        ELSE None

\* vol is in percent: 0.35 is 35 and 0.20 is 20.
classify_market_regime(vol, trnd) ==
    IF Truthy(vol) /\ Val(vol) > 35 THEN "HIGH_VOLATILITY"
    ELSE IF Truthy(vol) /\ Val(vol) < 20 THEN "LOW_VOLATILITY"
    ELSE IF TruthyStr(trnd) /\ Lower(Val(trnd)) = "bullish" THEN "BULLISH"
    ELSE IF TruthyStr(trnd) /\ Lower(Val(trnd)) = "bearish" THEN "BEARISH"
    ELSE "NEUTRAL"

\* The strategy instance select_best_strategy returns: its type and its config.
StrategyFor(strategy_type, symbol_config) ==
    Some([strategy_type |-> strategy_type, config |-> symbol_config])

\* A decision tree without the final default to the Wheel.
select_by_regime_NoDefault(scfg, symbol_config, vol, trnd) ==
    LET regime == classify_market_regime(vol, trnd)
    IN  IF /\ regime = "NEUTRAL" /\ Truthy(vol) /\ Val(vol) < 25
           /\ scfg.iron_condor_enabled
        THEN StrategyFor("IRON_CONDOR", symbol_config)
        ELSE IF regime \in {"BULLISH", "BEARISH"} /\ scfg.wheel_enabled
        THEN StrategyFor("WHEEL", symbol_config)
        ELSE IF regime = "HIGH_VOLATILITY" /\ scfg.wheel_enabled
        THEN StrategyFor("WHEEL", symbol_config)
        ELSE None

\* The decision tree on the market regime, after the continuity rule.
select_by_regime(scfg, symbol_config, vol, trnd) ==
    LET regime == classify_market_regime(vol, trnd)
    IN  IF /\ regime = "NEUTRAL" /\ Truthy(vol) /\ Val(vol) < 25
           /\ scfg.iron_condor_enabled
        THEN StrategyFor("IRON_CONDOR", symbol_config)
        ELSE IF regime \in {"BULLISH", "BEARISH"} /\ scfg.wheel_enabled
        THEN StrategyFor("WHEEL", symbol_config)
        ELSE IF regime = "HIGH_VOLATILITY" /\ scfg.wheel_enabled
        THEN StrategyFor("WHEEL", symbol_config)
        ELSE IF scfg.wheel_enabled
        THEN StrategyFor("WHEEL", symbol_config)
        ELSE None

\* A selector that goes by the market regime alone.
select_best_strategy_RegimeOnly(scfg, scfgs, sym, vol, trnd, existing_positions) ==
    IF sym \notin DOMAIN scfgs THEN None
    ELSE select_by_regime(scfg, scfgs[sym], vol, trnd)

\* existing_positions is a list; None and the empty list are both false.
select_best_strategy(scfg, scfgs, sym, vol, trnd, existing_positions) ==
    IF sym \notin DOMAIN scfgs THEN None
    ELSE
    LET symbol_config == scfgs[sym]
        existing_strategy == IF existing_positions # <<>>
                             THEN detect_current_strategy(existing_positions)
                             ELSE None
    IN  IF existing_strategy = Some("WHEEL") /\ scfg.wheel_enabled
        THEN StrategyFor("WHEEL", symbol_config)
        ELSE IF existing_strategy = Some("IRON_CONDOR") /\ scfg.iron_condor_enabled
        THEN StrategyFor("IRON_CONDOR", symbol_config)
        ELSE select_by_regime(scfg, symbol_config, vol, trnd)

-----------------------------------------------------------------------------
(* The selector called cycle after cycle on the positions of one symbol *)

MaxSelectorPositions == 5

StrategyConfigs == {StrategyConfig(w, ic) : w \in BOOLEAN, ic \in BOOLEAN}

SelectorSymbolConfigs == [s \in {"SPY"} |-> SymbolConfig("SPY", TRUE, 1, 0, 0, 10)]

\* SPY is configured, QQQ is not.
SelectorSymbols == {"SPY", "QQQ"}

SelectorPositionPool ==
    <<Position("SPY", "stock", 100, 440, 45000, None, None, None),
      Position("SPY", "option", 1, 1, 1, Some(435), Some(30), Some("P")),
      Position("SPY", "option", -1, 3, -1, Some(440), Some(30), Some("P")),
      Position("SPY", "option", -1, 3, -1, Some(460), Some(30), Some("C")),
      Position("SPY", "option", 1, 1, 1, Some(465), Some(30), Some("C")),
      Position("SPY", "option", -1, 3, -1, Some(430), Some(30), Some("P"))>>

\* Volatility in percent, on both sides of the thresholds 20, 25 and 35.
Volatilities == {None, Some(0), Some(15), Some(20), Some(22), Some(25), Some(35), Some(40)}

Trends ==
    {None, Some(""), Some("bullish"), Some("bearish"), Some("neutral"),
     Some("BULLISH"), Some("Neutral"), Some("sideways")}

InitSelector ==
    /\ phase = "select_input"
    /\ NoExecutor
    /\ NoSearch
    /\ NoRiskCall
    /\ NoStrategyCall
    /\ NoCycle
    /\ SelectorIdle
    /\ strategy_config \in StrategyConfigs
    /\ current_symbol \in SelectorSymbols
    /\ positions \in DistinctFromPool(SelectorPositionPool, MaxSelectorPositions)
    /\ account_info = AccountInfo(10000, 9000, 0)

\* One cycle's call of select_best_strategy: the configuration and the positions
\* stay as they are, the volatility and the trend are the cycle's own.
SelectBestStrategy ==
    /\ phase \in {"select_input", "selected"}
    /\ phase' = "selected"
    /\ volatility' \in Volatilities
    /\ trend' \in Trends
    /\ selected' = select_best_strategy(strategy_config, SelectorSymbolConfigs,
                                        current_symbol, volatility', trend', positions)
    /\ UNCHANGED <<executorVars, searchVars, snapshotVars, riskVars, marketVars, strategyOut,
                   strategy_config, current_symbol, cycleVars>>

NextSelector == SelectBestStrategy

SpecSelector == InitSelector /\ [][NextSelector]_vars

-----------------------------------------------------------------------------
(* Claims on the selector *)

\* The strategy the existing positions imply, the rules read in the order given:
\* any stock position or exactly one option position implies Wheel, exactly four
\* option positions split two puts and two calls imply Iron Condor.
Controlling ==
    LET stocks == {i \in DOMAIN positions : positions[i].position_type = "stock"}
        options == {i \in DOMAIN positions : positions[i].position_type = "option"}
        puts == {i \in options : positions[i].right = Some("P")}
        calls == {i \in options : positions[i].right = Some("C")}
    IN  IF stocks # {} \/ Cardinality(options) = 1 THEN "WHEEL"
        ELSE IF Cardinality(options) = 4 /\ Cardinality(puts) = 2 /\ Cardinality(calls) = 2
             THEN "IRON_CONDOR"
        ELSE "NONE"

ControllingEnabled ==
    \/ Controlling = "WHEEL" /\ strategy_config.wheel_enabled
    \/ Controlling = "IRON_CONDOR" /\ strategy_config.iron_condor_enabled

\* Whatever the volatility and the trend, the controlling strategy is returned.
ContinuityHolds ==
    (/\ phase = "selected"
     /\ current_symbol \in DOMAIN SelectorSymbolConfigs
     /\ ControllingEnabled)
        => /\ selected # None
           /\ Val(selected).strategy_type = Controlling

\* From one cycle to the next the selection does not change.
NeverFlips ==
    (/\ phase = "selected"
     /\ phase' = "selected"
     /\ current_symbol \in DOMAIN SelectorSymbolConfigs
     /\ ControllingEnabled)
        => selected' = selected

\* C5: when the existing positions of a configured symbol imply a controlling
\* strategy and that strategy is enabled, select_best_strategy returns it for
\* every volatility and trend, and over successive cycles with the same open
\* positions the selected strategy never flips to the other one.
C5_StrategyContinuity == [](ContinuityHolds) /\ [][NeverFlips]_vars

\* Four iron-condor legs are open, both strategies are enabled and volatility is
\* high in a bullish market, where the regime alone picks the Wheel: Iron Condor
\* is selected.
C5_Witness ==
    /\ phase = "selected"
    /\ current_symbol = "SPY"
    /\ Controlling = "IRON_CONDOR"
    /\ strategy_config.wheel_enabled
    /\ strategy_config.iron_condor_enabled
    /\ volatility = Some(40)
    /\ trend = Some("bullish")
    /\ Val(selected).strategy_type = "IRON_CONDOR"


\* C13: with no existing positions for a configured symbol and
\* iron_condor_enabled, select_best_strategy returns the Iron Condor strategy
\* whenever the trend is neutral and the supplied volatility is below 0.25, a
\* low volatility such as 0.18 included. Stated for a volatility above 0.
C13_NeutralLowVolatilityIronCondor ==
    (/\ phase = "selected"
     /\ current_symbol \in DOMAIN SelectorSymbolConfigs
     /\ positions = <<>>
     /\ strategy_config.iron_condor_enabled
     /\ trend = Some("neutral")
     /\ volatility # None
     /\ Val(volatility) > 0
     /\ Val(volatility) < 25)
        => /\ selected # None
           /\ Val(selected).strategy_type = "IRON_CONDOR"

\* The regimes as the selector's rules name them: high volatility above 0.35,
\* low volatility below 0.20 (a volatility of 0 counts as not supplied), and
\* otherwise the trend, neutral when it is none of bullish and bearish.
HighVolatilityRegime == volatility # None /\ Val(volatility) > 35

LowVolatilityRegime == volatility # None /\ Val(volatility) > 0 /\ Val(volatility) < 20

DirectionalRegime ==
    /\ ~HighVolatilityRegime
    /\ ~LowVolatilityRegime
    /\ trend \in {Some("bullish"), Some("bearish"), Some("BULLISH")}

NeutralRegime == ~HighVolatilityRegime /\ ~LowVolatilityRegime /\ ~DirectionalRegime

\* The Iron Condor rule applies: neutral regime, a supplied volatility below
\* 0.25 and the strategy enabled.
IronCondorRuleApplies ==
    /\ NeutralRegime
    /\ volatility # None
    /\ Val(volatility) > 0
    /\ Val(volatility) < 25
    /\ strategy_config.iron_condor_enabled

-----------------------------------------------------------------------------
(* The four entry points of the decision engine, each called on its inputs *)

InitEngine == InitRisk \/ InitStrategies \/ InitSelector

NextEngine == NextRisk \/ NextStrategies \/ NextSelector

SpecEngine == InitEngine /\ [][NextEngine]_vars

\* What the entry points are handed and what their objects are configured with.
EngineInputs ==
    <<recommendation, stock_price, options_chain, positions, account_info, current_vix,
      current_symbol, config, symbol_configs, risk_config, strategy_config>>

\* C22: WheelStrategy.analyze, IronCondorStrategy.analyze, select_best_strategy
\* and validate_trade leave the recommendation, the option chain, the position
\* list, the account snapshot and the configuration objects as they were;
\* validate_trade in particular never rewrites the recommendation's quantity.
C22_EngineIsPure == [][EngineInputs' = EngineInputs]_vars

\* validate_trade returned an adjusted quantity that differs from the quantity
\* the recommendation still has.
C22_Witness ==
    /\ phase = "risk_done"
    /\ Result.adjusted_quantity # None
    /\ Val(Result.adjusted_quantity) # recommendation.quantity

-----------------------------------------------------------------------------
(* OrderExecutor *)

\* An OrderRecord, with the contract the order was built for in place of the
\* broker's trade object.
OrderRecord(rec, contract, action, quantity, order_type, limit_price_x2, status) ==
    [symbol |-> rec.symbol, contract |-> contract, action |-> action,
     quantity |-> quantity, order_type |-> order_type,
     limit_price_x2 |-> limit_price_x2, status |-> status, recommendation |-> rec]

\* The Option contract _sell_option builds.
OptionContract(strike, expiration, right) ==
    [strike |-> strike, expiration |-> expiration, right |-> right]

\* How a call of the executor ends: with an exception, or with the OrderRecord
\* (or None) it returns.
Raises == [raised |-> TRUE, order |-> None]

Returns(order) == [raised |-> FALSE, order |-> order]

\* _submit_order: a dry run records a PENDING order without placing it;
\* otherwise the order is recorded as SUBMITTED once placeOrder returned, and an
\* exception of placeOrder is caught and answered with None.
submit_order(rec, contract, action, quantity, order_type, limit_price_x2, dry, accepts) ==
    IF dry
    THEN Some(OrderRecord(rec, contract, action, quantity, order_type, limit_price_x2,
                          "PENDING"))
    ELSE IF accepts
    THEN Some(OrderRecord(rec, contract, action, quantity, order_type, limit_price_x2,
                          "SUBMITTED"))
    ELSE None

\* _sell_option: a limit order at the recommendation's premium, 0.0 without one.
sell_option(rec, right, dry, accepts) ==
    IF ~Truthy(rec.strike) \/ rec.expiration = None THEN None
    ELSE submit_order(rec, OptionContract(rec.strike, rec.expiration, Some(right)),
                      "SELL", rec.quantity, "LIMIT",
                      Some(IF Truthy(rec.premium_x2) THEN Val(rec.premium_x2) ELSE 0),
                      dry, accepts)

\* _close_option: a market order to buy back the existing position.
close_option(rec, right, dry, accepts) ==
    IF rec.existing_position = None THEN None
    ELSE
    LET position == Val(rec.existing_position)
    IN  IF position.contract = None THEN None
        ELSE submit_order(rec,
                          OptionContract(position.strike, position.expiration, position.right),
                          "BUY", Abs(position.quantity), "MARKET", None, dry, accepts)

\* _roll_option. Both legs are built as TradeRecommendation(action=, symbol=,
\* quantity=, ...) without strategy_type, a field of the dataclass that has no
\* default: the constructor raises TypeError, for the closing leg when there is
\* an existing position, for the opening leg otherwise, before any order is
\* built. Only a roll with neither an existing position nor a new strike and
\* expiration returns (None).
roll_option(rec, right, dry, accepts) ==
    IF rec.existing_position # None THEN Raises
    ELSE IF ~Truthy(rec.new_strike) \/ rec.new_expiration = None THEN Returns(None)
    ELSE Raises

\* A dispatch that sells the put spread's short leg for SELL_IRON_CONDOR.
execute_recommendation_OpensIronCondor(rec, dry, accepts) ==
    CASE rec.action = "SELL_PUT" -> Returns(sell_option(rec, "P", dry, accepts))
      [] rec.action = "SELL_CALL" -> Returns(sell_option(rec, "C", dry, accepts))
      [] rec.action = "CLOSE_PUT" -> Returns(close_option(rec, "P", dry, accepts))
      [] rec.action = "CLOSE_CALL" -> Returns(close_option(rec, "C", dry, accepts))
      [] rec.action = "ROLL_PUT" -> roll_option(rec, "P", dry, accepts)
      [] rec.action = "ROLL_CALL" -> roll_option(rec, "C", dry, accepts)
      [] rec.action = "SELL_IRON_CONDOR" ->
            Returns(sell_option([rec EXCEPT !.strike = rec.short_put_strike], "P",
                                dry, accepts))
      [] OTHER -> Returns(None)

\* execute_recommendation: DO_NOTHING and the actions the dispatch does not
\* know, the four iron-condor actions, return None.
execute_recommendation(rec, dry, accepts) ==
    CASE rec.action = "SELL_PUT" -> Returns(sell_option(rec, "P", dry, accepts))
      [] rec.action = "SELL_CALL" -> Returns(sell_option(rec, "C", dry, accepts))
      [] rec.action = "CLOSE_PUT" -> Returns(close_option(rec, "P", dry, accepts))
      [] rec.action = "CLOSE_CALL" -> Returns(close_option(rec, "C", dry, accepts))
      [] rec.action = "ROLL_PUT" -> roll_option(rec, "P", dry, accepts)
      [] rec.action = "ROLL_CALL" -> roll_option(rec, "C", dry, accepts)
      [] OTHER -> Returns(None)

\* order_history after the call: _submit_order appends the record it returns.
HistoryAfter(history, outcome) ==
    IF outcome.order = None THEN history ELSE Append(history, Val(outcome.order))

-----------------------------------------------------------------------------
(* execute_recommendation called on one recommendation *)

\* A short put as the portfolio lists it, and the same position without its
\* contract.
HeldPut == Position("SPY", "option", -1, 2, -2, Some(44), Some(10), Some("P"))

ExecutorPositions == {None, Some(HeldPut), Some([HeldPut EXCEPT !.contract = None])}

\* Recommendations of every action, with and without the fields the executor
\* reads.
ExecutorRecommendations ==
    {[TradeRecommendation(a, "SPY", q, IF a \in IronCondorActions THEN "IRON_CONDOR" ELSE "WHEEL")
        EXCEPT !.strike = leg[1], !.expiration = leg[2], !.premium_x2 = leg[3],
               !.short_put_strike = leg[1],
               !.existing_position = ep,
               !.new_strike = new[1], !.new_expiration = new[2]] :
        a \in Action, q \in 1..MaxQuantity,
        leg \in {<<None, None, None>>, <<Some(43), Some(35), Some(6)>>,
                 <<Some(43), Some(35), None>>, <<Some(43), None, Some(6)>>},
        ep \in ExecutorPositions,
        new \in {<<None, None>>, <<Some(43), Some(35)>>, <<Some(43), None>>}}

InitExecutor ==
    /\ phase = "exec_input"
    /\ NoSearch
    /\ NoStrategyCall
    /\ NoSelectorCall
    /\ NoCycle
    /\ risk_config = None
    /\ symbol_configs = <<>>
    /\ current_vix = None
    /\ risk_result = NoResult
    /\ positions = <<>>
    /\ account_info = AccountInfo(10000, 9000, 0)
    /\ recommendation \in ExecutorRecommendations
    /\ dry_run \in BOOLEAN
    /\ broker_accepts \in BOOLEAN
    /\ order_history = <<>>
    /\ execution = None

ExecuteRecommendation ==
    /\ phase = "exec_input"
    /\ phase' = "exec_done"
    /\ LET outcome == execute_recommendation(recommendation, dry_run, broker_accepts)
       IN  /\ execution' = Some(outcome)
           /\ order_history' = HistoryAfter(order_history, outcome)
    /\ UNCHANGED <<dry_run, broker_accepts, searchVars, snapshotVars, riskVars, marketVars,
                   strategyOut, selectorVars, cycleVars>>

NextExecutor == ExecuteRecommendation

SpecExecutor == InitExecutor /\ [][NextExecutor]_vars

-----------------------------------------------------------------------------
(* Claims on the order executor *)

\* A roll as the Wheel emits it: the existing position with its contract, the
\* new strike and the new expiration, handed to an executor whose orders the
\* broker takes.
CompleteRoll ==
    /\ recommendation.action \in {"ROLL_PUT", "ROLL_CALL"}
    /\ recommendation.existing_position = Some(HeldPut)
    /\ recommendation.new_strike # None
    /\ recommendation.new_expiration # None
    /\ dry_run \/ broker_accepts

\* C23: executing a roll closes the old leg and then opens the new one, in that
\* order: order_history holds the buy-to-close order for the existing position
\* and, after it, the sell order for the new leg.
C23_RollClosesThenOpens ==
    (phase = "exec_done" /\ CompleteRoll) =>
        /\ Len(order_history) = 2
        /\ order_history[1].action = "BUY"
        /\ order_history[2].action = "SELL"

-----------------------------------------------------------------------------
(* ThetaGangBot.run_once: one trading cycle *)

\* config.symbols in the order of the configuration file.
CycleSymbols == <<"SPY", "QQQ">>

\* strategy.analyze of the strategy the selector returned.
analyze(strategy, price, chain, pos, acct) ==
    IF strategy.strategy_type = "WHEEL"
    THEN wheel_analyze(strategy.config, price, chain, pos, acct)
    ELSE iron_condor_analyze(strategy.config, price, chain, pos, acct)

\* The body of the loop over config.symbols for one symbol: the recommendations
\* it adds to all_recommendations.
analyze_symbol(scfg, scfgs, sym, data, all_positions, acct) ==
    IF ~scfgs[sym].enabled THEN <<>>
    ELSE
    LET symbol_positions == SelectSeq(all_positions, LAMBDA p : p.symbol = sym)
        strategy == select_best_strategy(scfg, scfgs, sym, data.volatility,
                                         Some("neutral"), symbol_positions)
    IN  IF strategy = None THEN <<>>
        ELSE analyze(Val(strategy), data.stock_price, data.options_chain,
                     symbol_positions, acct)

\* The quantity execute_recommendation is called with.
ExecutedQuantity(rec, result) ==
    IF Truthy(result.adjusted_quantity) THEN Val(result.adjusted_quantity) ELSE rec.quantity

-----------------------------------------------------------------------------
(* Inputs of the trading cycle *)

CycleSymbolConfigs ==
    {[s \in {"SPY", "QQQ"} |->
        IF s = "SPY" THEN SymbolConfig("SPY", spy, mp, 0, 0, 0)
                     ELSE SymbolConfig("QQQ", qqq, 1, 0, 0, 10)] :
        spy \in BOOLEAN, qqq \in BOOLEAN, mp \in {1, MaxQuantity}}

MarketData(price, vol, chain) ==
    [stock_price |-> price, volatility |-> vol, options_chain |-> chain]

\* SPY trades at 450 with the iron-condor quotes, QQQ at 45 with a put and a
\* call at delta 0.30; SPY's volatility is on either side of the thresholds.
CycleMarkets ==
    {[s \in {"SPY", "QQQ"} |->
        IF s = "SPY" THEN MarketData(450, vol, IronCondorQuotes)
                     ELSE MarketData(45, Some(30), SubSeq(WheelOptionPool, 1, 1)
                                                   \o SubSeq(WheelOptionPool, 5, 5))] :
        vol \in {Some(22), Some(40)}}

\* Nothing; an open SPY spread to adjust; one to close next to a QQQ put to
\* close; SPY stock without a covered call; a QQQ put to roll.
CyclePortfolios ==
    {<<>>,
     FourLegs(<<1, -1, -1, 1>>,
              [avg_cost |-> <<1, 3, 3, 1>>, market_value |-> <<1, 1, 1, 1>>], 30),
     FourLegs(<<1, -1, -1, 1>>,
              [avg_cost |-> <<1, 3, 3, 1>>, market_value |-> <<0, 1, 1, 0>>], 30)
        \o <<Position("QQQ", "option", -1, 2, -1, Some(44), Some(10), Some("P"))>>,
     <<Position("SPY", "stock", 100, 440, 45000, None, None, None)>>,
     <<Position("QQQ", "option", -1, 2, -2, Some(44), Some(10), Some("P"))>>}

\* An account with room for everything, one with buying power for nothing, and
\* one with room for a SPY put or a QQQ put but not for both.
CycleAccounts ==
    {AccountInfo(1000000, 500000, 0), AccountInfo(100000, 3000, 0),
     AccountInfo(200000, 45000, 55000)}

InitCycle ==
    /\ phase = "cycle_analyze"
    /\ NoSearch
    /\ NoStrategyCall
    /\ SelectorIdle
    /\ current_symbol = ""
    /\ risk_config \in RiskConfigs
    /\ symbol_configs \in CycleSymbolConfigs
    /\ strategy_config \in StrategyConfigs
    /\ positions \in CyclePortfolios
    /\ account_info \in CycleAccounts
    /\ current_vix \in RiskVix
    /\ market \in CycleMarkets
    /\ recommendation = None
    /\ risk_result = NoResult
    /\ all_recommendations = <<>>
    /\ next_symbol = 1
    /\ next_rec = 1
    /\ validated = <<>>
    /\ executed = <<>>
    /\ dry_run \in BOOLEAN
    /\ broker_accepts \in (IF dry_run THEN {TRUE} ELSE BOOLEAN)
    /\ order_history = <<>>
    /\ execution = None

\* One pass of the loop over config.symbols.
CycleAnalyzeSymbol ==
    /\ phase = "cycle_analyze"
    /\ next_symbol <= Len(CycleSymbols)
    /\ all_recommendations' =
           all_recommendations \o analyze_symbol(strategy_config, symbol_configs,
                                                 CycleSymbols[next_symbol],
                                                 market[CycleSymbols[next_symbol]],
                                                 positions, account_info)
    /\ next_symbol' = next_symbol + 1
    /\ phase' = IF next_symbol = Len(CycleSymbols) THEN "cycle_validate" ELSE "cycle_analyze"
    /\ UNCHANGED <<executorVars, searchVars, snapshotVars, riskVars, marketVars, strategyOut, selectorVars,
                   market, next_rec, validated, executed>>

\* The loop over all_recommendations calls validate_trade for the next one.
CycleValidate ==
    /\ phase = "cycle_validate"
    /\ next_rec <= Len(all_recommendations)
    /\ LET rec == all_recommendations[next_rec]
           result == validate_trade(risk_config, symbol_configs, rec, positions,
                                    account_info, current_vix)
       IN  /\ recommendation' = Some(rec)
           /\ risk_result' = Some(result)
           /\ validated' = Append(validated, [index |-> next_rec, recommendation |-> rec,
                                           result |-> result])
    /\ phase' = "cycle_decide"
    /\ UNCHANGED <<executorVars, searchVars, snapshotVars, risk_config, current_vix, marketVars, strategyOut,
                   selectorVars, market, all_recommendations, next_symbol, next_rec,
                   executed>>

\* A cycle that hands the recommendation to the executor whatever the result.
CycleExecute_Unchecked ==
    /\ phase = "cycle_decide"
    /\ LET rec == [all_recommendations[next_rec] EXCEPT
                      !.quantity = ExecutedQuantity(all_recommendations[next_rec],
                                                    Val(risk_result))]
           outcome == execute_recommendation(rec, dry_run, broker_accepts)
       IN  /\ all_recommendations' = [all_recommendations EXCEPT ![next_rec] = rec]
           /\ executed' = Append(executed, [index |-> next_rec, recommendation |-> rec])
           /\ execution' = Some(outcome)
           /\ order_history' = HistoryAfter(order_history, outcome)
           /\ phase' = IF outcome.raised THEN "cycle_failed" ELSE "cycle_validate"
    /\ next_rec' = next_rec + 1
    /\ UNCHANGED <<dry_run, broker_accepts, searchVars, snapshotVars, riskVars, marketVars,
                   strategyOut, selectorVars, market, next_symbol, validated>>

\* The approved branch: the adjusted quantity, if any, is written into the
\* recommendation, which is then handed to execute_recommendation. An exception
\* of the executor is caught by run_once's outer handler, which ends the cycle.
CycleExecute ==
    /\ phase = "cycle_decide"
    /\ Val(risk_result).approved
    /\ LET rec == [all_recommendations[next_rec] EXCEPT
                      !.quantity = ExecutedQuantity(all_recommendations[next_rec],
                                                    Val(risk_result))]
           outcome == execute_recommendation(rec, dry_run, broker_accepts)
       IN  /\ all_recommendations' = [all_recommendations EXCEPT ![next_rec] = rec]
           /\ executed' = Append(executed, [index |-> next_rec, recommendation |-> rec])
           /\ execution' = Some(outcome)
           /\ order_history' = HistoryAfter(order_history, outcome)
           /\ phase' = IF outcome.raised THEN "cycle_failed" ELSE "cycle_validate"
    /\ next_rec' = next_rec + 1
    /\ UNCHANGED <<dry_run, broker_accepts, searchVars, snapshotVars, riskVars, marketVars,
                   strategyOut, selectorVars, market, next_symbol, validated>>

\* The rejected branch only logs.
CycleReject ==
    /\ phase = "cycle_decide"
    /\ ~Val(risk_result).approved
    /\ next_rec' = next_rec + 1
    /\ phase' = "cycle_validate"
    /\ UNCHANGED <<executorVars, searchVars, snapshotVars, riskVars, marketVars, strategyOut, selectorVars,
                   market, all_recommendations, next_symbol, validated, executed>>

\* The loop over all_recommendations is over.
CycleComplete ==
    /\ phase = "cycle_validate"
    /\ next_rec > Len(all_recommendations)
    /\ phase' = "cycle_done"
    /\ UNCHANGED <<executorVars, searchVars, snapshotVars, riskVars, marketVars, strategyOut, selectorVars, cycleVars>>

NextCycle ==
    \/ CycleAnalyzeSymbol
    \/ CycleValidate
    \/ CycleExecute
    \/ CycleReject
    \/ CycleComplete

SpecCycle == InitCycle /\ [][NextCycle]_vars

-----------------------------------------------------------------------------
(* Claims on the trading cycle *)

\* The calls of validate_trade made so far for the recommendation at position k
\* of all_recommendations.
ValidationsOf(k) == {validated[i] : i \in {j \in DOMAIN validated : validated[j].index = k}}

\* C3: in one trading cycle execute_recommendation is called for a
\* recommendation only after validate_trade returned approved = true for that
\* same recommendation, a rejected recommendation is never executed, and the
\* recommendation is executed with the adjusted quantity when the result carries
\* one, and with the quantity it was validated with otherwise.
C3_ValidatedBeforeExecuted ==
    /\ \A i \in DOMAIN executed :
        LET k == executed[i].index
            rec == executed[i].recommendation
        IN  /\ ValidationsOf(k) # {}
            /\ rec = all_recommendations[k]
            /\ \A v \in ValidationsOf(k) :
                /\ v.result.approved
                /\ [rec EXCEPT !.quantity = v.recommendation.quantity] = v.recommendation
                /\ rec.quantity = IF v.result.adjusted_quantity # None
                                  THEN Val(v.result.adjusted_quantity)
                                  ELSE v.recommendation.quantity
    /\ \A i \in DOMAIN validated :
        ~validated[i].result.approved
            => \A j \in DOMAIN executed : executed[j].index # validated[i].index
    /\ \A i, j \in DOMAIN executed : executed[i].index = executed[j].index => i = j

\* A cycle is over in which one recommendation was approved and executed and
\* another was rejected and not executed.
C3_Witness ==
    /\ phase = "cycle_done"
    /\ Len(validated) >= 2
    /\ Len(executed) >= 1
    /\ \E i \in DOMAIN validated : ~validated[i].result.approved
    /\ \E i \in DOMAIN executed :
        \E j \in DOMAIN validated :
            /\ validated[j].index = executed[i].index
            /\ validated[j].result.approved

\* The margin the SELL_PUT orders submitted so far in the cycle tie up:
\* strike * 100 * quantity of each.
SubmittedPutMargin ==
    Sum([i \in DOMAIN order_history |->
            IF order_history[i].recommendation.action = "SELL_PUT"
            THEN Val(order_history[i].recommendation.strike) * 100
                 * order_history[i].recommendation.quantity
            ELSE 0])

\* C26: in one trading cycle the SELL_PUT recommendations approved and executed
\* stay within the limits as a whole: the margin used plus their margin does not
\* exceed max_portfolio_margin_usage of the net liquidation, and their margin
\* does not exceed the buying power.
C26_CycleWithinLimits ==
    /\ (account_info.margin_used + SubmittedPutMargin) * 100
           <= risk_config.max_portfolio_margin_usage * account_info.net_liquidation
    /\ SubmittedPutMargin <= account_info.buying_power

\* The portfolio holds of the symbol a stock position, of a quantity other than
\* zero, and nothing else.
HoldsOnlyStock(sym) ==
    LET held == {p \in SeqToSet(positions) : p.symbol = sym}
    IN  /\ held # {}
        /\ \A p \in held : p.position_type = "stock" /\ p.quantity # 0

\* C28: for a symbol with max_positions = 1 that holds only a stock position,
\* every SELL_CALL the Wheel emits is rejected by validate_trade with
\* POSITION_LIMIT_EXCEEDED, whatever the account, the limits and the VIX are.
C28_CoveredCallBlockedByStock ==
    \A i \in DOMAIN validated :
        LET rec == validated[i].recommendation
        IN  (/\ rec.action = "SELL_CALL"
             /\ rec.strategy_type = "WHEEL"
             /\ symbol_configs[rec.symbol].max_positions = 1
             /\ HoldsOnlyStock(rec.symbol))
                => /\ ~validated[i].result.approved
                   /\ \E j \in DOMAIN validated[i].result.violations :
                         validated[i].result.violations[j] = "POSITION_LIMIT_EXCEEDED"

\* The covered call on 100 shares was rejected, and for the position count alone.
C28_Witness ==
    \E i \in DOMAIN validated :
        LET rec == validated[i].recommendation
        IN  /\ rec.action = "SELL_CALL"
            /\ symbol_configs[rec.symbol].max_positions = 1
            /\ HoldsOnlyStock(rec.symbol)
            /\ validated[i].result.violations = <<"POSITION_LIMIT_EXCEEDED">>

\* The executor called on one recommendation, or by a trading cycle.
InitExecution == InitExecutor \/ InitCycle

NextExecution == NextExecutor \/ NextCycle

SpecExecution == InitExecution /\ [][NextExecution]_vars

\* The recommendation the executor was called with last.
LastExecuted ==
    IF phase = "exec_done" THEN recommendation
    ELSE executed[Len(executed)].recommendation

\* C30: for SELL_IRON_CONDOR, CLOSE_IRON_CONDOR, ROLL_IRON_CONDOR and
\* ADJUST_IRON_CONDOR execute_recommendation submits no order, returns None and
\* leaves order_history as it was, so no order of a trading cycle comes from an
\* iron-condor recommendation, approved or not.
C30_IronCondorNotExecutable ==
    /\ \A i \in DOMAIN order_history :
          order_history[i].recommendation.action \notin IronCondorActions
    /\ (execution # None /\ LastExecuted.action \in IronCondorActions) =>
          /\ execution = Some(Returns(None))
          /\ order_history = <<>> \/ order_history[Len(order_history)].recommendation # LastExecuted

\* A cycle is over in which an approved SELL_IRON_CONDOR was handed to the
\* executor and no order was recorded.
C30_Witness ==
    /\ phase = "cycle_done"
    /\ \E i \in DOMAIN executed : executed[i].recommendation.action = "SELL_IRON_CONDOR"
    /\ order_history = <<>>

=============================================================================
